---- MODULE Spec2Model ----
(***************************************************************************)
(* shutr7: the PTP-over-USB transport (ptp/transport.py), the generic PTP  *)
(* session layer (ptp/protocol.py), the Canon EOS extension (ptp/canon.py) *)
(* and the CanonR7 facade (camera.py), as one state machine.               *)
(*                                                                         *)
(* Bytes are naturals 0..255 and byte strings are sequences of them, so    *)
(* struct.pack / struct.unpack are modelled by the arithmetic they do.     *)
(* The program is single threaded: `stack` holds the Python call stack,    *)
(* one frame per active function, and a step of the model runs the top     *)
(* frame up to its next USB transfer or its next call.  `ret` is what the  *)
(* function that finished last handed to its caller (a value or a raised   *)
(* exception).  USBTransport._max_packet_size is written by connect and    *)
(* never read; it is left out.                                             *)
(***************************************************************************)
EXTENDS Integers, Sequences, FiniteSets, TLC

(* ---------------------------------------------------------------- bounds *)

\* The transaction-id counter is followed up to this value.
MaxTid == 3
\* While the whole library is explored, a send_command call is followed through
\* at most this many bulk-in reads.
MaxReads == 3
\* While send_command alone is explored, a call is followed through at most this
\* many bulk-in reads.
MaxExchangeReads == 4
\* While GetEvent is explored, a call is followed through at most this many
\* bulk-in reads, and an answer holds at most this many event records.
MaxEventReads == 3
MaxRecords == 2
\* While GetDeviceInfo is explored, a call is followed through at most this many
\* bulk-in reads.
MaxDeviceInfoReads == 3

(* ------------------------------------------------------------- constants *)

GET_DEVICE_INFO == 4097
OPEN_SESSION == 4098
CLOSE_SESSION == 4099
SET_REMOTE_MODE == 37140
SET_EVENT_MODE == 37141
GET_EVENT == 37142
SHUTTER_RELEASE_COUNTER == 53607
OK == 8193
DEVICE_BUSY == 8217
PROP_VALUE_CHANGED == 49545
COMMAND == 1
DATA == 2
RESPONSE == 3
\* struct.calcsize("<IHHI"): the container header.
HEADER_LEN == 12

(* ------------------------------------------------------------ byte codec *)

Min(a, b) == IF a < b THEN a ELSE b
Max(a, b) == IF a > b THEN a ELSE b

\* struct.pack("<H", n) and struct.pack("<I", n)
PackU16(n) == << n % 256, (n \div 256) % 256 >>
PackU32(n) ==
    << n % 256, (n \div 256) % 256, (n \div 65536) % 256, (n \div 16777216) % 256 >>

\* struct.unpack_from("<H", b, at) and struct.unpack_from("<I", b, at); at is 0-based.
UnpackU16(b, at) == b[at + 1] + 256 * b[at + 2]
UnpackU32(b, at) ==
    b[at + 1] + 256 * b[at + 2] + 65536 * b[at + 3] + 16777216 * b[at + 4]

RECURSIVE Flatten(_)
\* b"".join(seqs)
Flatten(seqs) == IF seqs = << >> THEN << >> ELSE Head(seqs) \o Flatten(Tail(seqs))

\* b"".join(struct.pack("<I", p) for p in params)
PackParams(params) == Flatten([i \in 1..Len(params) |-> PackU32(params[i])])

\* struct.pack("<IHHI", length, type, code, tid)
PackHeaderTidFirst(length, type, code, tid) ==
    PackU32(tid) \o PackU16(type) \o PackU16(code) \o PackU32(length)
PackHeader(length, type, code, tid) ==
    PackU32(length) \o PackU16(type) \o PackU16(code) \o PackU32(tid)

\* struct.unpack("<IHHI", raw[:12])
UnpackHeaderCodeFromTid(raw) ==
    [ pkt_len  |-> UnpackU32(raw, 0),
      pkt_type |-> UnpackU16(raw, 4),
      pkt_code |-> UnpackU16(raw, 8),
      pkt_tid  |-> UnpackU32(raw, 8) ]
UnpackHeader(raw) ==
    [ pkt_len  |-> UnpackU32(raw, 0),
      pkt_type |-> UnpackU16(raw, 4),
      pkt_code |-> UnpackU16(raw, 6),
      pkt_tid  |-> UnpackU32(raw, 8) ]

\* Python's s[k:] and s[:k] for any integer k (a negative k counts from the end).
SliceFrom(s, k) ==
    LET i == IF k >= 0 THEN Min(k, Len(s)) ELSE Max(Len(s) + k, 0)
    IN  SubSeq(s, i + 1, Len(s))
SliceTo(s, k) ==
    LET i == IF k >= 0 THEN Min(k, Len(s)) ELSE Max(Len(s) + k, 0)
    IN  SubSeq(s, 1, i)

\* cmd_packet and data_packet of send_command
CmdPacket(code, params, tid) ==
    PackHeader(HEADER_LEN + Len(PackParams(params)), COMMAND, code, tid) \o PackParams(params)
DataPacket(code, data, tid) ==
    PackHeader(HEADER_LEN + Len(data), DATA, code, tid) \o data

(* ----------------------------------------------------------------- state *)

VARIABLES
    device,           \* USBTransport.device is not None
    in_ep,            \* USBTransport.in_ep is not None
    out_ep,           \* USBTransport.out_ep is not None
    intr_ep,          \* USBTransport.intr_ep is not None
    _transaction_id,  \* USBTransport._transaction_id
    protocol,         \* CanonR7.protocol is not None
    stack,            \* the call stack, the running frame last
    sc,               \* the arguments and locals of the running send_command
    ret,              \* the outcome of the function that finished last
    ioLog,            \* history: the bulk transfers of the latest send_command
    cmdLog,           \* history: the Command containers of the latest client call
    tidHist,          \* history: the transaction id drawn last
    connHist          \* history: the latest connect and the latest disconnect

vars == << device, in_ep, out_ep, intr_ep, _transaction_id, protocol, stack, sc,
           ret, ioLog, cmdLog, tidHist, connHist >>

transport == << device, in_ep, out_ep, intr_ep >>

(* ------------------------------------------------------ values and frames *)

NoErr == [kind |-> "", msg |-> "", args |-> << >>]
\* An exception: its class, the fixed text of its message and the numbers
\* formatted into the message.
Err(kind, msg, args) == [kind |-> kind, msg |-> msg, args |-> args]

\* What a function hands to its caller: (code, data) of send_command, the parsed
\* value `val` of get_device_info and get_event, or the exception `err`.
Returned(fn, code, data) ==
    [fn |-> fn, st |-> "ok", code |-> code, data |-> data, val |-> << >>, err |-> NoErr]
ReturnedValue(fn, val) ==
    [fn |-> fn, st |-> "ok", code |-> 0, data |-> << >>, val |-> val, err |-> NoErr]
Raised(fn, err) ==
    [fn |-> fn, st |-> "err", code |-> 0, data |-> << >>, val |-> << >>, err |-> err]
NoRet == Returned("", 0, << >>)

Frame(fn, pc, op) == [fn |-> fn, pc |-> pc, op |-> op]
Top == stack[Len(stack)]
Pop == SubSeq(stack, 1, Len(stack) - 1)
Running(fn, pc) == stack # << >> /\ Top.fn = fn /\ Top.pc = pc
Goto(pc) == [stack EXCEPT ![Len(stack)].pc = pc]

ScIdle ==
    [ code |-> 0, params |-> << >>, hasData |-> FALSE, data |-> << >>, tid |-> 0,
      response_data |-> << >>, pkt_len |-> 0 ]
\* send_command(operation_code, params, data); hasData is `data is not None`.
ScArgs(code, params, hasData, data) ==
    [ code |-> code, params |-> params, hasData |-> hasData, data |-> data, tid |-> 0,
      response_data |-> << >>, pkt_len |-> 0 ]
ScFrame == Frame("send_command", "enter", 0)

\* tidHist: the id drawn last (-1: none yet) and whether open_session has
\* succeeded since.  connHist: how the latest connect ended and whether the
\* latest disconnect called usb.util.dispose_resources.
\* epMissing: a connect found the interface without a bulk endpoint and no
\* connect has succeeded since.
NoTidHist == [last |-> -1, resetPending |-> FALSE]
NoConnHist == [last |-> "none", epMissing |-> FALSE, disposed |-> FALSE]

\* connHist after a connect that ended `how`
Connected(how) ==
    [ last |-> how,
      epMissing |-> IF how = "endpoint_missing" THEN TRUE
                    ELSE IF how = "connected" THEN FALSE
                    ELSE connHist.epMissing,
      disposed |-> FALSE ]

\* An entry of cmdLog: the arguments of a send_command call that wrote its
\* Command container, the transaction id it drew and the response code it
\* returned (-1: none, or none yet).
Sent(args) ==
    [ code |-> args.code, params |-> args.params, hasData |-> args.hasData,
      data |-> args.data, tid |-> args.tid, rc |-> -1 ]

Init ==
    /\ device = FALSE
    /\ in_ep = FALSE
    /\ out_ep = FALSE
    /\ intr_ep = FALSE
    /\ _transaction_id = 0
    /\ protocol = FALSE
    /\ stack = << >>
    /\ sc = ScIdle
    /\ ret = NoRet
    /\ ioLog = << >>
    /\ cmdLog = << >>
    /\ tidHist = NoTidHist
    /\ connHist = NoConnHist

\* The client (cli.py, or a test) calls into the library only when no call is
\* running; n is the number of transaction ids the call can draw.
ClientMayCall(n) == stack = << >> /\ _transaction_id + n <= MaxTid

(* ------------------------------------------- USBTransport.connect / disconnect *)

\* What the USB host reports during one connect: whether usb.core.find finds the
\* device, how set_configuration ends, and which endpoints interface 0 has.
UsbAnswers ==
    { [found |-> FALSE, cfg |-> "ok", out |-> FALSE, inp |-> FALSE, intr |-> FALSE] }
    \cup { [found |-> TRUE, cfg |-> c, out |-> FALSE, inp |-> FALSE, intr |-> FALSE] :
             c \in {"busy", "error"} }
    \cup { [found |-> TRUE, cfg |-> "ok", out |-> o, inp |-> i, intr |-> n] :
             o \in BOOLEAN, i \in BOOLEAN, n \in BOOLEAN }

\* The fields of the transport after connect() against answer a, and the exception
\* it raises (NoErr: none).
ConnectOutcome(a) ==
    IF ~a.found
    THEN [ device |-> device, out_ep |-> out_ep, in_ep |-> in_ep, intr_ep |-> intr_ep,
           err |-> Err("USBTransportError", "Canon camera not found", << >>),
           how |-> "not_found" ]
    ELSE IF a.cfg = "busy"
    THEN [ device |-> TRUE, out_ep |-> out_ep, in_ep |-> in_ep, intr_ep |-> intr_ep,
           err |-> Err("USBTransportError", "Camera is busy", << >>),
           how |-> "busy" ]
    ELSE IF a.cfg = "error"
    THEN [ device |-> TRUE, out_ep |-> out_ep, in_ep |-> in_ep, intr_ep |-> intr_ep,
           err |-> Err("USBError", "set_configuration", << >>),
           how |-> "usb_error" ]
    ELSE [ device |-> TRUE, out_ep |-> a.out, in_ep |-> a.inp, intr_ep |-> a.intr,
           err |-> IF ~a.out \/ ~a.inp
                   THEN Err("USBTransportError", "Required USB endpoints not found", << >>)
                   ELSE NoErr,
           how |-> IF ~a.out \/ ~a.inp THEN "endpoint_missing" ELSE "connected" ]

\* The fields of the transport after disconnect(), and whether it called
\* usb.util.dispose_resources.
DisconnectAlwaysDisposes ==
    [ device |-> FALSE, out_ep |-> FALSE, in_ep |-> FALSE, intr_ep |-> FALSE,
      disposed |-> TRUE ]
DisconnectOutcome ==
    IF device
    THEN [ device |-> FALSE, out_ep |-> FALSE, in_ep |-> FALSE, intr_ep |-> FALSE,
           disposed |-> TRUE ]
    ELSE [ device |-> device, out_ep |-> out_ep, in_ep |-> in_ep, intr_ep |-> intr_ep,
           disposed |-> FALSE ]

\* transport.connect(), called by the client
connect ==
    /\ ClientMayCall(0)
    /\ \E a \in UsbAnswers :
         LET r == ConnectOutcome(a) IN
         /\ device' = r.device
         /\ out_ep' = r.out_ep
         /\ in_ep' = r.in_ep
         /\ intr_ep' = r.intr_ep
         /\ ret' = IF r.err = NoErr THEN Returned("connect", 0, << >>)
                                    ELSE Raised("connect", r.err)
         /\ connHist' = Connected(r.how)
    /\ ioLog' = << >>
    /\ cmdLog' = << >>
    /\ UNCHANGED << _transaction_id, protocol, stack, sc, tidHist >>

\* transport.disconnect(), called by the client
disconnect ==
    /\ ClientMayCall(0)
    /\ LET r == DisconnectOutcome IN
         /\ device' = r.device
         /\ out_ep' = r.out_ep
         /\ in_ep' = r.in_ep
         /\ intr_ep' = r.intr_ep
         /\ connHist' = [connHist EXCEPT !.disposed = r.disposed]
    /\ ret' = Returned("disconnect", 0, << >>)
    /\ ioLog' = << >>
    /\ cmdLog' = << >>
    /\ UNCHANGED << _transaction_id, protocol, stack, sc, tidHist >>

(* --------------------------------------------------- USBTransport.send_command *)

\* the guard of send_command: `self.out_ep is None or self.in_ep is None`
NotConnectedBothMissing == ~out_ep /\ ~in_ep
NotConnected == ~out_ep \/ ~in_ep

\* the transaction_id property: the value of the counter after a draw
NextTransactionIdSkips(tid) == tid + 2
NextTransactionId(tid) == tid + 1

\* reset_transaction_id: the value of the counter after a reset
ResetTransactionId == 0

Reads(log) == SelectSeq(log, LAMBDA e : e.k = "r")
Writes(log) == SelectSeq(log, LAMBDA e : e.k = "w")
Transfer(k, ok, bytes) == [k |-> k, ok |-> ok, bytes |-> bytes]

\* ioLog with one more transfer: the history keeps the first LogSize transfers
\* of a call, enough for every call that is followed through a bounded number
\* of reads.
LogSize == MaxExchangeReads + 3
Logged(e) == IF Len(ioLog) < LogSize THEN Append(ioLog, e) ELSE ioLog

\* The exception leaves send_command: its frame and its locals are gone.
ScRaise(msg, args) ==
    /\ stack' = Pop
    /\ sc' = ScIdle
    /\ ret' = Raised("send_command", Err("USBTransportError", msg, args))

ScReturn(code, data) ==
    /\ stack' = Pop
    /\ sc' = ScIdle
    /\ ret' = Returned("send_command", code, data)
    /\ cmdLog' = [cmdLog EXCEPT ![Len(cmdLog)].rc = code]

\* lines 150-156: the connection check and the draw of the transaction id
SendCommandDrawsBeforeCheck ==
    /\ Running("send_command", "enter")
    /\ ioLog' = << >>
    /\ _transaction_id' = NextTransactionId(_transaction_id)
    /\ tidHist' = [last |-> _transaction_id, resetPending |-> FALSE]
    /\ IF NotConnected
       THEN ScRaise("Not connected", << >>)
       ELSE /\ sc' = [sc EXCEPT !.tid = _transaction_id]
            /\ stack' = Goto("write_cmd")
            /\ UNCHANGED ret
    /\ UNCHANGED << transport, protocol, cmdLog, connHist >>
send_command_enter ==
    /\ Running("send_command", "enter")
    /\ ioLog' = << >>
    /\ IF NotConnected
       THEN /\ ScRaise("Not connected", << >>)
            /\ UNCHANGED << _transaction_id, tidHist >>
       ELSE /\ sc' = [sc EXCEPT !.tid = _transaction_id]
            /\ _transaction_id' = NextTransactionId(_transaction_id)
            /\ stack' = Goto("write_cmd")
            /\ tidHist' = [last |-> _transaction_id, resetPending |-> FALSE]
            /\ UNCHANGED ret
    /\ UNCHANGED << transport, protocol, cmdLog, connHist >>

\* lines 158-172: out_ep.write(cmd_packet); ok is whether the write succeeds
send_command_write_cmd(ok) ==
    /\ Running("send_command", "write_cmd")
    /\ ioLog' = Logged(Transfer("w", ok, CmdPacket(sc.code, sc.params, sc.tid)))
    /\ cmdLog' = Append(cmdLog, Sent(sc))
    /\ IF ~ok
       THEN ScRaise("Failed to send command", << >>)
       ELSE /\ stack' = Goto(IF sc.hasData THEN "write_data" ELSE "read")
            /\ UNCHANGED << sc, ret >>
    /\ UNCHANGED << transport, _transaction_id, protocol, tidHist, connHist >>

\* lines 174-186: out_ep.write(data_packet)
send_command_write_data(ok) ==
    /\ Running("send_command", "write_data")
    /\ ioLog' = Logged(Transfer("w", ok, DataPacket(sc.code, sc.data, sc.tid)))
    /\ IF ~ok
       THEN ScRaise("Failed to send data", << >>)
       ELSE /\ stack' = Goto("read")
            /\ UNCHANGED << sc, ret >>
    /\ UNCHANGED << transport, _transaction_id, protocol, cmdLog, tidHist, connHist >>

\* lines 205-213 once response_data holds the first chunk or one more chunk: the
\* test of the inner while, and the trim when it ends
AfterChunk(response_data, pkt_len) ==
    IF Len(response_data) + HEADER_LEN < pkt_len
    THEN [pc |-> "read_more", response_data |-> response_data]
    ELSE [pc |-> "read", response_data |-> SliceTo(response_data, pkt_len - HEADER_LEN)]

\* lines 191-219: one pass of the outer loop up to its next read; r is what
\* in_ep.read gives: r.ok FALSE is a USBError (a timeout included).  The call is
\* followed through `limit` reads.
SendCommandReadMatchesTid(r, limit) ==
    /\ Running("send_command", "read")
    /\ Len(Reads(ioLog)) < limit
    /\ ioLog' = Logged(Transfer("r", r.ok, r.bytes))
    /\ IF ~r.ok
       THEN ScRaise("Failed to receive response", << >>) /\ UNCHANGED cmdLog
       ELSE IF Len(r.bytes) < HEADER_LEN
       THEN /\ ScRaise("Invalid response packet: too short", << Len(r.bytes) >>)
            /\ UNCHANGED cmdLog
       ELSE LET h == UnpackHeader(r.bytes) IN
            IF h.pkt_type = DATA
            THEN LET a == AfterChunk(SliceFrom(r.bytes, HEADER_LEN), h.pkt_len) IN
                 /\ sc' = [sc EXCEPT !.response_data = a.response_data,
                                     !.pkt_len = h.pkt_len]
                 /\ stack' = Goto(a.pc)
                 /\ UNCHANGED << ret, cmdLog >>
            ELSE IF h.pkt_type = RESPONSE /\ h.pkt_tid = sc.tid
            THEN ScReturn(h.pkt_code, sc.response_data)
            ELSE /\ ScRaise("Unexpected packet type", << h.pkt_type >>)
                 /\ UNCHANGED cmdLog
    /\ UNCHANGED << transport, _transaction_id, protocol, tidHist, connHist >>
send_command_read(r, limit) ==
    /\ Running("send_command", "read")
    /\ Len(Reads(ioLog)) < limit
    /\ ioLog' = Logged(Transfer("r", r.ok, r.bytes))
    /\ IF ~r.ok
       THEN ScRaise("Failed to receive response", << >>) /\ UNCHANGED cmdLog
       ELSE IF Len(r.bytes) < HEADER_LEN
       THEN /\ ScRaise("Invalid response packet: too short", << Len(r.bytes) >>)
            /\ UNCHANGED cmdLog
       ELSE LET h == UnpackHeader(r.bytes) IN
            IF h.pkt_type = DATA
            THEN LET a == AfterChunk(SliceFrom(r.bytes, HEADER_LEN), h.pkt_len) IN
                 /\ sc' = [sc EXCEPT !.response_data = a.response_data,
                                     !.pkt_len = h.pkt_len]
                 /\ stack' = Goto(a.pc)
                 /\ UNCHANGED << ret, cmdLog >>
            ELSE IF h.pkt_type = RESPONSE
            THEN ScReturn(h.pkt_code, sc.response_data)
            ELSE /\ ScRaise("Unexpected packet type", << h.pkt_type >>)
                 /\ UNCHANGED cmdLog
    /\ UNCHANGED << transport, _transaction_id, protocol, tidHist, connHist >>

\* lines 208-213: one pass of the inner loop
send_command_read_more(r, limit) ==
    /\ Running("send_command", "read_more")
    /\ Len(Reads(ioLog)) < limit
    /\ ioLog' = Logged(Transfer("r", r.ok, r.bytes))
    /\ IF ~r.ok
       THEN ScRaise("Failed to receive response", << >>)
       ELSE LET a == AfterChunk(sc.response_data \o r.bytes, sc.pkt_len) IN
            /\ sc' = [sc EXCEPT !.response_data = a.response_data]
            /\ stack' = Goto(a.pc)
            /\ UNCHANGED ret
    /\ UNCHANGED << transport, _transaction_id, protocol, cmdLog, tidHist, connHist >>

\* transport.send_command(code, params, data), called by the client
call_send_command(code, params, hasData, data) ==
    /\ ClientMayCall(1)
    /\ stack' = << ScFrame >>
    /\ sc' = ScArgs(code, params, hasData, data)
    /\ ret' = NoRet
    /\ ioLog' = << >>
    /\ cmdLog' = << >>
    /\ UNCHANGED << transport, _transaction_id, protocol, tidHist, connHist >>

(* ------------------------------------------------- protocol.py: the codec *)

\* data[a:b] for 0 <= a and 0 <= b
Slice(data, a, b) == SubSeq(data, a + 1, Min(b, Len(data)))

RECURSIVE Utf16Units(_)
\* the 16-bit little-endian code units of an even number of bytes
Utf16Units(b) ==
    IF Len(b) < 2 THEN << >>
    ELSE << UnpackU16(b, 0) >> \o Utf16Units(SubSeq(b, 3, Len(b)))

IsHighSurrogate(u) == u >= 55296 /\ u <= 56319
IsLowSurrogate(u) == u >= 56320 /\ u <= 57343

RECURSIVE Utf16Chars(_)
\* bytes.decode("utf-16-le") on code units: the code points, or << -1 >> in the
\* place of the first unit that makes Python raise UnicodeDecodeError
Utf16Chars(u) ==
    IF u = << >> THEN << >>
    ELSE IF IsHighSurrogate(u[1])
    THEN IF Len(u) >= 2 /\ IsLowSurrogate(u[2])
         THEN << 65536 + (u[1] - 55296) * 1024 + (u[2] - 56320) >>
              \o Utf16Chars(SubSeq(u, 3, Len(u)))
         ELSE << -1 >>
    ELSE IF IsLowSurrogate(u[1]) THEN << -1 >>
    ELSE << u[1] >> \o Utf16Chars(Tail(u))

\* lines 80-83: the decoded string, "" when the bytes are not valid UTF-16
DecodeUtf16OrEmpty(b) ==
    LET chars == Utf16Chars(Utf16Units(b))
    IN  IF \E i \in 1..Len(chars) : chars[i] = -1 THEN << >> ELSE chars

\* PTPProtocol._read_ptp_string(data, offset) -> (string, offset)
ReadPtpStringKeepsOffsetOnBadText(data, offset) ==
    IF offset >= Len(data) THEN [string |-> << >>, offset |-> offset]
    ELSE LET num_chars == data[offset + 1]
             byte_len == num_chars * 2
             text == Utf16Chars(Utf16Units(
                         Slice(data, offset + 1, offset + 1 + byte_len - 2)))
         IN  IF num_chars = 0 THEN [string |-> << >>, offset |-> offset + 1]
             ELSE IF offset + 1 + byte_len > Len(data)
             THEN [string |-> << >>, offset |-> offset + 1]
             ELSE IF \E i \in 1..Len(text) : text[i] = -1
             THEN [string |-> << >>, offset |-> offset + 1]
             ELSE [string |-> text, offset |-> offset + 1 + byte_len]
_read_ptp_string(data, offset) ==
    IF offset >= Len(data) THEN [string |-> << >>, offset |-> offset]
    ELSE LET num_chars == data[offset + 1]
             byte_len == num_chars * 2
         IN  IF num_chars = 0 THEN [string |-> << >>, offset |-> offset + 1]
             ELSE IF offset + 1 + byte_len > Len(data)
             THEN [string |-> << >>, offset |-> offset + 1]
             ELSE [ string |-> DecodeUtf16OrEmpty(
                                   Slice(data, offset + 1, offset + 1 + byte_len - 2)),
                    offset |-> offset + 1 + byte_len ]

\* PTPProtocol._skip_uint16_array(data, offset) -> offset
SkipArrayOfBytes(data, offset) ==
    IF offset + 4 > Len(data) THEN offset
    ELSE offset + 4 + UnpackU32(data, offset)
_skip_uint16_array(data, offset) ==
    IF offset + 4 > Len(data) THEN offset
    ELSE offset + 4 + UnpackU32(data, offset) * 2

RECURSIVE SkipArrays(_, _, _)
\* lines 53-54: n passes of the loop over _skip_uint16_array
SkipArrays(data, offset, n) ==
    IF n = 0 THEN offset ELSE SkipArrays(data, _skip_uint16_array(data, offset), n - 1)

\* The 0-based indices of data that _read_ptp_string(data, offset) reads by
\* indexing: line 68, reached when the test of line 65 fails.  (The slice of
\* line 81 cannot leave the buffer.)
ReadPtpStringIndexed(data, offset) ==
    IF offset >= Len(data) THEN {} ELSE { offset }

\* The indices that _skip_uint16_array(data, offset) reads: struct.unpack_from
\* of line 93, reached when the test of line 91 fails.
SkipArrayUnpacksFirst(data, offset) == offset .. (offset + 3)
SkipArrayIndexed(data, offset) ==
    IF offset + 4 > Len(data) THEN {} ELSE offset .. (offset + 3)

RECURSIVE SkipArraysIndexed(_, _, _)
\* lines 53-54: what the n passes of the loop read
SkipArraysIndexed(data, offset, n) ==
    IF n = 0 THEN {}
    ELSE SkipArrayIndexed(data, offset)
         \cup SkipArraysIndexed(data, _skip_uint16_array(data, offset), n - 1)

\* The indices _parse_device_info(data) reads by indexing.
ParseDeviceInfoIndexed(data) ==
    LET desc == _read_ptp_string(data, 8)
        arrays == SkipArrays(data, desc.offset + 2, 5)
        manufacturer == _read_ptp_string(data, arrays)
        model == _read_ptp_string(data, manufacturer.offset)
    IN  ReadPtpStringIndexed(data, 8)
        \cup SkipArraysIndexed(data, desc.offset + 2, 5)
        \cup ReadPtpStringIndexed(data, arrays)
        \cup ReadPtpStringIndexed(data, manufacturer.offset)
        \cup ReadPtpStringIndexed(data, model.offset)

\* PTPProtocol._parse_device_info(data) -> (manufacturer, model, device_version)
_parse_device_info(data) ==
    LET desc == _read_ptp_string(data, 8)
        arrays == SkipArrays(data, desc.offset + 2, 5)
        manufacturer == _read_ptp_string(data, arrays)
        model == _read_ptp_string(data, manufacturer.offset)
        device_version == _read_ptp_string(data, model.offset)
    IN  << manufacturer.string, model.string, device_version.string >>

(* ---------------------------------------------------- canon.py: the events *)

IntValue(prop_code, n) ==
    [property_code |-> prop_code, kind |-> "int", int |-> n, bytes |-> << >>]
BytesValue(prop_code, b) ==
    [property_code |-> prop_code, kind |-> "bytes", int |-> 0, bytes |-> b]

\* lines 50-58: the events (none or one) of the record at offset
RecordEventsFourBytesAsBytes(data, offset, record_len, event_code) ==
    IF event_code # PROP_VALUE_CHANGED THEN << >>
    ELSE LET record_data == Slice(data, offset + 8, offset + record_len) IN
         IF Len(record_data) < 4 THEN << >>
         ELSE LET prop_code == UnpackU32(record_data, 0)
                  prop_value == SliceFrom(record_data, 4)
              IN  IF prop_value # << >>
                  THEN << BytesValue(prop_code, prop_value) >>
                  ELSE << >>
RecordEvents(data, offset, record_len, event_code) ==
    IF event_code # PROP_VALUE_CHANGED THEN << >>
    ELSE LET record_data == Slice(data, offset + 8, offset + record_len) IN
         IF Len(record_data) < 4 THEN << >>
         ELSE LET prop_code == UnpackU32(record_data, 0)
                  prop_value == SliceFrom(record_data, 4)
              IN  IF Len(prop_value) = 4
                  THEN << IntValue(prop_code, UnpackU32(prop_value, 0)) >>
                  ELSE IF prop_value # << >>
                  THEN << BytesValue(prop_code, prop_value) >>
                  ELSE << >>

RECURSIVE ParseEventsFrom(_, _)
\* lines 45-60: the loop of _parse_event_data, from offset on
ParseEventsFromStopsAtOtherCode(data, offset) ==
    IF offset + 8 > Len(data) THEN << >>
    ELSE LET record_len == UnpackU32(data, offset)
             event_code == UnpackU32(data, offset + 4)
         IN  IF record_len = 0 \/ event_code # PROP_VALUE_CHANGED THEN << >>
             ELSE RecordEvents(data, offset, record_len, event_code)
                  \o ParseEventsFrom(data, offset + record_len)
ParseEventsFrom(data, offset) ==
    IF offset + 8 > Len(data) THEN << >>
    ELSE LET record_len == UnpackU32(data, offset)
             event_code == UnpackU32(data, offset + 4)
         IN  IF record_len = 0 \/ event_code = 0 THEN << >>
             ELSE RecordEvents(data, offset, record_len, event_code)
                  \o ParseEventsFrom(data, offset + record_len)

\* lines 45-48 and 60: one test of the loop condition at offset and, where it
\* holds, one pass of the body: the loop ends ("end": fewer than 8 bytes
\* remain), breaks ("break": record_len or event_code is 0) or goes on at
\* offset + record_len ("next").
LoopPassAdvancesByData(data, offset) ==
    IF offset + 8 > Len(data) THEN [to |-> "end", offset |-> offset]
    ELSE LET record_len == UnpackU32(data, offset)
             event_code == UnpackU32(data, offset + 4)
         IN  IF record_len = 0 \/ event_code = 0
             THEN [to |-> "break", offset |-> offset]
             ELSE [to |-> "next", offset |-> offset + Max(record_len - 8, 0)]
LoopPass(data, offset) ==
    IF offset + 8 > Len(data) THEN [to |-> "end", offset |-> offset]
    ELSE LET record_len == UnpackU32(data, offset)
             event_code == UnpackU32(data, offset + 4)
         IN  IF record_len = 0 \/ event_code = 0
             THEN [to |-> "break", offset |-> offset]
             ELSE [to |-> "next", offset |-> offset + record_len]

RECURSIVE LoopPasses(_, _, _)
\* The number of passes of the loop body from offset on, followed through at
\* most `most` passes: most + 1 when the loop is still going after them.
LoopPasses(data, offset, most) ==
    LET p == LoopPass(data, offset) IN
    IF p.to = "end" THEN 0
    ELSE IF p.to = "break" THEN 1
    ELSE IF most = 0 THEN 1
    ELSE 1 + LoopPasses(data, p.offset, most - 1)

\* CanonEOSProtocol._parse_event_data(data), as the list get_event makes of it
_parse_event_data(data) == ParseEventsFrom(data, 0)

(* ------------------------------------------------ protocol.py: the session *)

\* A call of send_command made by the function whose frames are `frames`; no
\* outcome is pending while the call runs.
CallSendCommand(frames, code, params) ==
    /\ stack' = frames \o << ScFrame >>
    /\ sc' = ScArgs(code, params, FALSE, << >>)
    /\ ret' = NoRet

\* An exception passes through the running frame to its caller.
Propagate ==
    /\ stack' = Pop
    /\ ret' = Raised(Top.fn, ret.err)

Return(r) ==
    /\ stack' = Pop
    /\ ret' = r

\* lines 30-32 on the outcome r of send_command: what open_session hands back,
\* and whether it reaches reset_transaction_id()
OpenSessionResetsAlways(r) ==
    IF r.st = "err"
    THEN [ret |-> Raised("open_session", r.err), reset |-> TRUE]
    ELSE IF r.code # OK
    THEN [ ret |-> Raised("open_session",
                          Err("RuntimeError", "Failed to open session", << r.code >>)),
           reset |-> TRUE ]
    ELSE [ret |-> Returned("open_session", 0, << >>), reset |-> TRUE]
OpenSessionOutcome(r) ==
    IF r.st = "err"
    THEN [ret |-> Raised("open_session", r.err), reset |-> FALSE]
    ELSE IF r.code # OK
    THEN [ ret |-> Raised("open_session",
                          Err("RuntimeError", "Failed to open session", << r.code >>)),
           reset |-> FALSE ]
    ELSE [ret |-> Returned("open_session", 0, << >>), reset |-> TRUE]

\* lines 36-39 on the outcome r of send_command: what close_session hands back
CloseSessionPropagates(r) ==
    IF r.st = "err" THEN Raised("close_session", r.err)
    ELSE Returned("close_session", 0, << >>)
CloseSessionOutcome(r) == Returned("close_session", 0, << >>)

\* lines 44-46 on the outcome r of send_command; indexing outside the buffer
\* makes Python raise (IndexError at line 68, struct.error at line 93)
GetDeviceInfoOutcome(r) ==
    IF r.st = "err" THEN Raised("get_device_info", r.err)
    ELSE IF r.code # OK
    THEN Raised("get_device_info",
                Err("RuntimeError", "Failed to get device info", << r.code >>))
    ELSE IF \E i \in ParseDeviceInfoIndexed(r.data) : i < 0 \/ i >= Len(r.data)
    THEN Raised("get_device_info", Err("IndexError", "out of range", << >>))
    ELSE ReturnedValue("get_device_info", _parse_device_info(r.data))

\* canon.py lines 38-40 on the outcome r of send_command
GetEventOutcome(r) ==
    IF r.st = "err" THEN Raised("get_event", r.err)
    ELSE IF r.code # OK
    THEN Raised("get_event", Err("RuntimeError", "GetEvent failed", << r.code >>))
    ELSE ReturnedValue("get_event", _parse_event_data(r.data))

\* canon.py lines 32-33 on the outcome r of send_command(operation, params)
SendCanonCommandOutcome(operation, r) ==
    IF r.st = "err" THEN Raised("_send_canon_command", r.err)
    ELSE IF r.code # OK
    THEN Raised("_send_canon_command",
                Err("RuntimeError", "Command failed", << operation, r.code >>))
    ELSE Returned("_send_canon_command", 0, << >>)

\* protocol.open_session(), called by the client
call_open_session ==
    /\ ClientMayCall(1)
    /\ CallSendCommand(<< Frame("open_session", "sent", 0) >>, OPEN_SESSION, << 1 >>)
    /\ ioLog' = << >>
    /\ cmdLog' = << >>
    /\ UNCHANGED << transport, _transaction_id, protocol, tidHist, connHist >>

\* open_session once send_command is back
open_session_check ==
    /\ Running("open_session", "sent")
    /\ LET o == OpenSessionOutcome(ret) IN
         /\ Return(o.ret)
         /\ IF o.reset
            THEN /\ _transaction_id' = ResetTransactionId
                 /\ tidHist' = [tidHist EXCEPT !.resetPending = TRUE]
            ELSE UNCHANGED << _transaction_id, tidHist >>
    /\ UNCHANGED << transport, protocol, sc, ioLog, cmdLog, connHist >>

\* protocol.close_session(), called by the client
call_close_session ==
    /\ ClientMayCall(1)
    /\ CallSendCommand(<< Frame("close_session", "sent", 0) >>, CLOSE_SESSION, << >>)
    /\ ioLog' = << >>
    /\ cmdLog' = << >>
    /\ UNCHANGED << transport, _transaction_id, protocol, tidHist, connHist >>

\* close_session once send_command is back
close_session_done ==
    /\ Running("close_session", "sent")
    /\ Return(CloseSessionOutcome(ret))
    /\ UNCHANGED << transport, _transaction_id, protocol, sc, ioLog, cmdLog, tidHist,
                    connHist >>

\* protocol.get_device_info(), called by the client
call_get_device_info ==
    /\ ClientMayCall(1)
    /\ CallSendCommand(<< Frame("get_device_info", "sent", 0) >>, GET_DEVICE_INFO, << >>)
    /\ ioLog' = << >>
    /\ cmdLog' = << >>
    /\ UNCHANGED << transport, _transaction_id, protocol, tidHist, connHist >>

get_device_info_check ==
    /\ Running("get_device_info", "sent")
    /\ Return(GetDeviceInfoOutcome(ret))
    /\ UNCHANGED << transport, _transaction_id, protocol, sc, ioLog, cmdLog, tidHist,
                    connHist >>

(* --------------------------------------------- canon.py: the EOS extension *)

\* protocol.get_event(), called by the client
call_get_event ==
    /\ ClientMayCall(1)
    /\ CallSendCommand(<< Frame("get_event", "sent", 0) >>, GET_EVENT, << >>)
    /\ ioLog' = << >>
    /\ cmdLog' = << >>
    /\ UNCHANGED << transport, _transaction_id, protocol, tidHist, connHist >>

get_event_check ==
    /\ Running("get_event", "sent")
    /\ Return(GetEventOutcome(ret))
    /\ UNCHANGED << transport, _transaction_id, protocol, sc, ioLog, cmdLog, tidHist,
                    connHist >>

\* _send_canon_command once send_command is back
_send_canon_command_check ==
    /\ Running("_send_canon_command", "sent")
    /\ Return(SendCanonCommandOutcome(Top.op, ret))
    /\ UNCHANGED << transport, _transaction_id, protocol, sc, ioLog, cmdLog, tidHist,
                    connHist >>

\* The frames of initialize_eos_session() at its first call, open_session().
InitializeFrames ==
    << Frame("initialize_eos_session", "open_session", 0),
       Frame("open_session", "sent", 0) >>

\* protocol.initialize_eos_session(), called by the client
call_initialize_eos_session ==
    /\ ClientMayCall(1)
    /\ CallSendCommand(InitializeFrames, OPEN_SESSION, << 1 >>)
    /\ ioLog' = << >>
    /\ cmdLog' = << >>
    /\ UNCHANGED << transport, _transaction_id, protocol, tidHist, connHist >>

\* The vendor command initialize_eos_session sends once the call it waits for at
\* pc has returned: 0 when that call was the last one.
NextInitCommandSkipsRemote(pc) ==
    IF pc = "open_session" THEN [op |-> SET_EVENT_MODE, pc |-> "event_mode"]
    ELSE [op |-> 0, pc |-> "done"]
NextInitCommand(pc) ==
    IF pc = "open_session" THEN [op |-> SET_REMOTE_MODE, pc |-> "remote_mode"]
    ELSE IF pc = "remote_mode" THEN [op |-> SET_EVENT_MODE, pc |-> "event_mode"]
    ELSE [op |-> 0, pc |-> "done"]

\* lines 77-79: initialize_eos_session once one of its three calls is back
initialize_eos_session_step ==
    /\ stack # << >>
    /\ Top.fn = "initialize_eos_session"
    /\ IF ret.st = "err"
       THEN Propagate /\ UNCHANGED sc
       ELSE LET n == NextInitCommand(Top.pc) IN
            IF n.op = 0
            THEN Return(Returned("initialize_eos_session", 0, << >>)) /\ UNCHANGED sc
            ELSE /\ CallSendCommand(
                        Goto(n.pc) \o << Frame("_send_canon_command", "sent", n.op) >>,
                        n.op, << 1 >>)
    /\ UNCHANGED << transport, _transaction_id, protocol, ioLog, cmdLog, tidHist, connHist >>

(* ------------------------------------------------- camera.py: the facade *)

\* CanonR7.connect(), called by the client
CanonR7_connect ==
    /\ ClientMayCall(1)
    /\ cmdLog' = << >>
    /\ \E a \in UsbAnswers :
         LET r == ConnectOutcome(a) IN
         /\ device' = r.device
         /\ out_ep' = r.out_ep
         /\ in_ep' = r.in_ep
         /\ intr_ep' = r.intr_ep
         /\ connHist' = Connected(r.how)
         /\ IF r.err # NoErr
            THEN /\ ret' = Raised("CanonR7.connect", r.err)
                 /\ UNCHANGED << protocol, stack, sc >>
            ELSE /\ protocol' = TRUE
                 /\ CallSendCommand(<< Frame("CanonR7.connect", "initialize", 0) >>
                                        \o InitializeFrames,
                                    OPEN_SESSION, << 1 >>)
    /\ ioLog' = << >>
    /\ UNCHANGED << _transaction_id, tidHist >>

\* CanonR7.connect once initialize_eos_session is back
CanonR7_connect_done ==
    /\ Running("CanonR7.connect", "initialize")
    /\ IF ret.st = "err" THEN Propagate
       ELSE Return(Returned("CanonR7.connect", 0, << >>))
    /\ UNCHANGED << transport, _transaction_id, protocol, sc, ioLog, cmdLog, tidHist,
                    connHist >>

\* CanonR7.disconnect(), called by the client
CanonR7_disconnect ==
    /\ ClientMayCall(1)
    /\ cmdLog' = << >>
    /\ IF protocol
       THEN /\ CallSendCommand(<< Frame("CanonR7.disconnect", "close_session", 0),
                                  Frame("close_session", "sent", 0) >>,
                               CLOSE_SESSION, << >>)
            /\ UNCHANGED << transport, connHist >>
       ELSE /\ LET r == DisconnectOutcome IN
                 /\ device' = r.device
                 /\ out_ep' = r.out_ep
                 /\ in_ep' = r.in_ep
                 /\ intr_ep' = r.intr_ep
                 /\ connHist' = [connHist EXCEPT !.disposed = r.disposed]
            /\ ret' = Returned("CanonR7.disconnect", 0, << >>)
            /\ UNCHANGED << stack, sc >>
    /\ ioLog' = << >>
    /\ UNCHANGED << _transaction_id, protocol, tidHist >>

\* lines 62-63: CanonR7.disconnect once close_session is back
CanonR7_disconnect_release ==
    /\ Running("CanonR7.disconnect", "close_session")
    /\ IF ret.st = "err"
       THEN Propagate /\ UNCHANGED << transport, protocol, connHist >>
       ELSE /\ protocol' = FALSE
            /\ LET r == DisconnectOutcome IN
                 /\ device' = r.device
                 /\ out_ep' = r.out_ep
                 /\ in_ep' = r.in_ep
                 /\ intr_ep' = r.intr_ep
                 /\ connHist' = [connHist EXCEPT !.disposed = r.disposed]
            /\ Return(Returned("CanonR7.disconnect", 0, << >>))
    /\ UNCHANGED << _transaction_id, sc, ioLog, cmdLog, tidHist >>

(* ------------------------------------------------------ the USB device *)

\* A container as the camera sends it.
Container(length, type, code, tid, payload) ==
    PackHeader(length, type, code, tid) \o payload

ReadFails == [ok |-> FALSE, bytes |-> << >>]
ReadGives(b) == [ok |-> TRUE, bytes |-> b]

\* What a bulk-in read gives while the whole library is explored: a timeout, a
\* short packet, a Response (OK or DeviceBusy), a complete Data container, a
\* Data container that needs one more read, a container of type Command.
Packets ==
    { << >>,
      Container(12, RESPONSE, OK, 0, << >>),
      Container(12, RESPONSE, DEVICE_BUSY, 0, << >>),
      Container(13, DATA, GET_EVENT, 0, << 161 >>),
      Container(14, DATA, GET_EVENT, 0, << 161 >>),
      Container(12, COMMAND, GET_EVENT, 0, << >>) }
FirstReads == { ReadFails } \cup { ReadGives(b) : b \in Packets }
MoreReads == { ReadFails, ReadGives(<< >>), ReadGives(<< 177 >>) }

\* What the client passes to a direct send_command.
DirectCalls ==
    { [code |-> GET_EVENT, params |-> << >>, hasData |-> FALSE, data |-> << >>],
      [code |-> SET_EVENT_MODE, params |-> << 1 >>, hasData |-> TRUE, data |-> << 209, 210 >>] }

Next ==
    \/ connect
    \/ disconnect
    \/ \E c \in DirectCalls : call_send_command(c.code, c.params, c.hasData, c.data)
    \/ send_command_enter
    \/ \E ok \in BOOLEAN : send_command_write_cmd(ok)
    \/ \E ok \in BOOLEAN : send_command_write_data(ok)
    \/ \E r \in FirstReads : send_command_read(r, MaxReads)
    \/ \E r \in MoreReads : send_command_read_more(r, MaxReads)
    \/ call_open_session
    \/ open_session_check
    \/ call_close_session
    \/ close_session_done
    \/ call_get_device_info
    \/ get_device_info_check
    \/ call_get_event
    \/ get_event_check
    \/ _send_canon_command_check
    \/ call_initialize_eos_session
    \/ initialize_eos_session_step
    \/ CanonR7_connect
    \/ CanonR7_connect_done
    \/ CanonR7_disconnect
    \/ CanonR7_disconnect_release

Spec == Init /\ [][Next]_vars

(* -------------------------------------- send_command alone, byte by byte *)

\* What a bulk-in read gives while send_command alone is explored: a timeout,
\* short packets of 0 and 11 bytes, Responses whose code and transaction id
\* vary, Data containers whose declared length is below the header size, equal
\* to what the read holds, less (padding follows) or more (further reads are
\* needed), one Data container with another code and transaction id, and
\* containers of type Command and of an unknown type.
ExchangePackets ==
    { << >>, SubSeq(Container(12, RESPONSE, OK, 0, << >>), 1, 11) }
    \cup { Container(12, RESPONSE, OK, 0, << >>),
           Container(12, RESPONSE, DEVICE_BUSY, 0, << >>),
           Container(12, RESPONSE, OK, 7, << >>) }
    \cup { Container(d, DATA, GET_EVENT, 0, p) :
             d \in {10, 13, 15}, p \in { << >>, << 161 >>, << 161, 162, 163, 164 >> } }
    \cup { Container(13, DATA, OPEN_SESSION, 7, << 161 >>) }
    \cup { Container(12, COMMAND, GET_EVENT, 0, << >>),
           Container(12, 4, GET_EVENT, 0, << >>) }
ExchangeFirstReads == { ReadFails } \cup { ReadGives(b) : b \in ExchangePackets }
ExchangeMoreReads ==
    { ReadFails, ReadGives(<< >>), ReadGives(<< 177 >>), ReadGives(<< 178, 179 >>) }

\* What the client passes to send_command: no parameter and no payload, two
\* parameters (one above 65535) and a payload, one parameter and an empty payload.
ExchangeCalls ==
    { [code |-> GET_EVENT, params |-> << >>, hasData |-> FALSE, data |-> << >>],
      [code |-> SET_EVENT_MODE, params |-> << 1, 65538 >>, hasData |-> TRUE,
       data |-> << 209, 210 >>],
      [code |-> GET_DEVICE_INFO, params |-> << 1 >>, hasData |-> TRUE, data |-> << >>] }

\* The state after a connect() that found the device and its three endpoints.
InitExchange ==
    /\ device = TRUE
    /\ in_ep = TRUE
    /\ out_ep = TRUE
    /\ intr_ep = TRUE
    /\ _transaction_id = 0
    /\ protocol = FALSE
    /\ stack = << >>
    /\ sc = ScIdle
    /\ ret = Returned("connect", 0, << >>)
    /\ ioLog = << >>
    /\ cmdLog = << >>
    /\ tidHist = NoTidHist
    /\ connHist = [last |-> "connected", epMissing |-> FALSE, disposed |-> FALSE]

NextExchange ==
    \/ \E c \in ExchangeCalls : call_send_command(c.code, c.params, c.hasData, c.data)
    \/ send_command_enter
    \/ \E ok \in BOOLEAN : send_command_write_cmd(ok)
    \/ \E ok \in BOOLEAN : send_command_write_data(ok)
    \/ \E r \in ExchangeFirstReads : send_command_read(r, MaxExchangeReads)
    \/ \E r \in ExchangeMoreReads : send_command_read_more(r, MaxExchangeReads)

SpecExchange == InitExchange /\ [][NextExchange]_vars

(* -------------------------------------------- canon.py: get_shutter_count *)

RECURSIVE ShutterCountOf(_)
\* canon.py lines 68-73: the loop over the events; << >> is None
ShutterCountOfFirstEightBytes(events) ==
    IF events = << >> THEN << >>
    ELSE LET event == Head(events) IN
         IF /\ event.property_code = SHUTTER_RELEASE_COUNTER
            /\ event.kind = "bytes"
            /\ Len(event.bytes) >= 16
         THEN << UnpackU32(event.bytes, 0), UnpackU32(event.bytes, 4) >>
         ELSE ShutterCountOf(Tail(events))
ShutterCountOf(events) ==
    IF events = << >> THEN << >>
    ELSE LET event == Head(events) IN
         IF /\ event.property_code = SHUTTER_RELEASE_COUNTER
            /\ event.kind = "bytes"
            /\ Len(event.bytes) >= 16
         THEN << UnpackU32(event.bytes, 8), UnpackU32(event.bytes, 12) >>
         ELSE ShutterCountOf(Tail(events))

\* canon.py lines 68-73 on the outcome r of get_event()
GetShutterCountOutcome(r) ==
    IF r.st = "err" THEN Raised("get_shutter_count", r.err)
    ELSE ReturnedValue("get_shutter_count", ShutterCountOf(r.val))

\* protocol.get_shutter_count(), called by the client
call_get_shutter_count ==
    /\ ClientMayCall(1)
    /\ CallSendCommand(<< Frame("get_shutter_count", "events", 0),
                          Frame("get_event", "sent", 0) >>, GET_EVENT, << >>)
    /\ ioLog' = << >>
    /\ cmdLog' = << >>
    /\ UNCHANGED << transport, _transaction_id, protocol, tidHist, connHist >>

\* get_shutter_count once get_event is back
get_shutter_count_done ==
    /\ Running("get_shutter_count", "events")
    /\ Return(GetShutterCountOutcome(ret))
    /\ UNCHANGED << transport, _transaction_id, protocol, sc, ioLog, cmdLog, tidHist,
                    connHist >>

(* ------------------------------------ GetEvent against a camera's answers *)

\* An event record as the camera lays it out: the declared length, the event
\* code, the record data.
EventRecord(record_len, event_code, record_data) ==
    PackU32(record_len) \o PackU32(event_code) \o record_data

\* A property-value-changed record whose declared length is its real length.
Changed(prop_code, prop_value) ==
    EventRecord(12 + Len(prop_value), PROP_VALUE_CHANGED,
                PackU32(prop_code) \o prop_value)

\* A shutter-counter value: 8 bytes, then 1000 and 2000 as u32.
CounterValue == << 0, 0, 0, 0, 0, 0, 0, 0, 232, 3, 0, 0, 208, 7, 0, 0 >>

\* The records a GetEvent answer is made of: values of 4, 0, 1 and 5 bytes; the
\* shutter counter with a value of 16 bytes, of 4 bytes and of 15 bytes, and
\* another property with the 16 bytes; record data shorter than a property
\* code; another event code; the two terminators; declared lengths below the
\* header size (4, 1 and 7).
EventRecords ==
    { Changed(53505, << 1, 2, 3, 4 >>),
      Changed(53505, << >>),
      Changed(53505, << 9 >>),
      Changed(53505, << 1, 2, 3, 4, 5 >>),
      Changed(SHUTTER_RELEASE_COUNTER, CounterValue),
      Changed(SHUTTER_RELEASE_COUNTER, << 232, 3, 0, 0 >>),
      Changed(SHUTTER_RELEASE_COUNTER, SubSeq(CounterValue, 1, 15)),
      Changed(53505, CounterValue),
      EventRecord(10, PROP_VALUE_CHANGED, << 7, 7 >>),
      EventRecord(12, 49546, << 5, 5, 5, 5 >>),
      EventRecord(8, 0, << >>),
      EventRecord(0, PROP_VALUE_CHANGED, << >>),
      EventRecord(4, PROP_VALUE_CHANGED, << >>),
      EventRecord(1, 1, << >>),
      EventRecord(7, PROP_VALUE_CHANGED, << >>) }

\* The ends of an answer that stops short: records that declare more bytes
\* than the answer holds (6 missing of a value of 8, 4 missing after the
\* shutter counter's 16, 1 missing of a value of 5), and three stray bytes.
CutRecords ==
    { EventRecord(20, PROP_VALUE_CHANGED, PackU32(53505) \o << 1, 2 >>),
      EventRecord(32, PROP_VALUE_CHANGED, PackU32(SHUTTER_RELEASE_COUNTER) \o CounterValue),
      EventRecord(17, PROP_VALUE_CHANGED, PackU32(53505) \o << 1, 2, 3, 4 >>),
      << 1, 2, 3 >> }

\* The payloads of a GetEvent answer: up to MaxRecords records, the last of
\* which may be cut.
EventPayloads ==
    LET whole(n) == { Flatten(rs) : rs \in [1..n -> EventRecords] } IN
    UNION { whole(n) : n \in 0..MaxRecords }
    \cup { w \o c : w \in UNION { whole(n) : n \in 0..(MaxRecords - 1) },
                    c \in CutRecords }

\* The camera answers GetEvent with one Data container and then a Response, or
\* with a Response at once; a read may fail or give nothing.  One answer comes
\* in two reads.
EventReads ==
    IF Reads(ioLog) = << >>
    THEN { ReadFails, ReadGives(<< >>),
           ReadGives(Container(12, RESPONSE, OK, 0, << >>)),
           ReadGives(Container(12, RESPONSE, DEVICE_BUSY, 0, << >>)),
           ReadGives(Container(28, DATA, GET_EVENT, 0,
                               SubSeq(Changed(53505, << 1, 2, 3, 4 >>), 1, 8))) }
         \cup { ReadGives(Container(12 + Len(p), DATA, GET_EVENT, 0, p)) :
                  p \in EventPayloads }
    ELSE { ReadFails,
           ReadGives(Container(12, RESPONSE, OK, 0, << >>)),
           ReadGives(Container(12, RESPONSE, DEVICE_BUSY, 0, << >>)) }
EventMoreReads ==
    { ReadFails, ReadGives(SubSeq(Changed(53505, << 1, 2, 3, 4 >>), 9, 16)) }

\* The state after a connect() that found the device and its three endpoints.
InitEvents == InitExchange

NextEvents ==
    \/ call_get_event
    \/ call_get_shutter_count
    \/ send_command_enter
    \/ \E ok \in BOOLEAN : send_command_write_cmd(ok)
    \/ \E r \in EventReads : send_command_read(r, MaxEventReads)
    \/ \E r \in EventMoreReads : send_command_read_more(r, MaxEventReads)
    \/ get_event_check
    \/ get_shutter_count_done

SpecEvents == InitEvents /\ [][NextEvents]_vars

(* ------------------------------- GetDeviceInfo against a camera's answers *)

RECURSIVE Utf16Encode(_)
\* The UTF-16LE bytes of a sequence of code points.
Utf16Encode(chars) ==
    IF chars = << >> THEN << >>
    ELSE (IF Head(chars) < 65536
          THEN PackU16(Head(chars))
          ELSE PackU16(55296 + (Head(chars) - 65536) \div 1024)
               \o PackU16(56320 + ((Head(chars) - 65536) % 1024)))
         \o Utf16Encode(Tail(chars))

\* A protocol string as the camera encodes it: the count of 16-bit units with
\* the terminator, the units, the terminator; the empty string is the count 0.
PtpString(chars) ==
    IF chars = << >> THEN << 0 >>
    ELSE LET b == Utf16Encode(chars) IN << Len(b) \div 2 + 1 >> \o b \o << 0, 0 >>

\* An array of n 16-bit elements behind its u32 count.
Uint16Array(n) == PackU32(n) \o Flatten([i \in 1..n |-> PackU16(4096 + i)])

\* The DeviceInfo dataset up to device_version: standard version, vendor
\* extension id and version, the extension description, the functional mode,
\* the five arrays, and the encoded manufacturer, model and device_version;
\* `tail` is what follows (the serial number, or nothing).
DeviceInfoLayout(desc, counts, strings, tail) ==
    << 100, 0 >> \o PackU32(11) \o << 44, 1 >> \o desc \o << 0, 0 >>
        \o Flatten([i \in 1..5 |-> Uint16Array(counts[i])])
        \o strings[1] \o strings[2] \o strings[3] \o tail

\* The strings a camera reports: empty, one and two ASCII characters, and
\* characters of two bytes and of a surrogate pair.
DeviceInfoStrings == { << >>, << 67 >>, << 65, 66 >>, << 233, 20320, 128512 >> }
ArrayCounts == { << 0, 0, 0, 0, 0 >>, << 1, 0, 2, 0, 0 >>, << 2, 1, 0, 3, 1 >> }

\* The well-formed answers, each with the three strings it encodes.
WellFormedAnswers ==
    { [ payload |-> DeviceInfoLayout(PtpString(desc), counts,
                        << PtpString(m), PtpString(mo), PtpString(v) >>, tail),
        strings |-> << m, mo, v >> ] :
        desc \in { << >>, << 65, 66 >>, << 20320 >> },
        counts \in ArrayCounts,
        m \in DeviceInfoStrings, mo \in DeviceInfoStrings, v \in DeviceInfoStrings,
        tail \in { << >>, PtpString(<< 83 >>) } }

\* A well-formed answer of ASCII strings, for cutting.
PlainAnswer ==
    DeviceInfoLayout(PtpString(<< 65, 66 >>), << 1, 0, 2, 0, 0 >>,
                     << PtpString(<< 67 >>), PtpString(<< 65, 66 >>),
                        PtpString(<< 67, 67 >>) >>, << >>)

\* Answers that are not well formed: every proper prefix of an answer (the
\* empty payload and payloads below 8 bytes among them); an array count that
\* points far past the end; fewer than 4 bytes where an array starts; a
\* manufacturer that is not valid UTF-16 (a lone high surrogate, a lone low
\* surrogate, a high surrogate before the terminator) or whose terminator is
\* not zero, before a valid model and device_version.
MalformedAnswers ==
    { SubSeq(PlainAnswer, 1, k) : k \in 0..(Len(PlainAnswer) - 1) }
    \cup { << 100, 0 >> \o PackU32(11) \o << 44, 1 >> \o << 0 >> \o << 0, 0 >>
               \o PackU32(16777216),
           << 100, 0 >> \o PackU32(11) \o << 44, 1 >> \o << 0 >> \o << 0, 0 >>
               \o << 1, 0 >> }
    \cup { DeviceInfoLayout(<< 0 >>, << 1, 0, 0, 0, 0 >>,
                            << m, PtpString(<< 65, 66 >>), PtpString(<< 67 >>) >>, << >>) :
             m \in { << 3, 0, 216, 65, 0, 0, 0 >>,
                     << 3, 65, 0, 0, 220, 0, 0 >>,
                     << 3, 65, 0, 0, 216, 0, 0 >>,
                     << 3, 65, 0, 66, 0, 88, 0 >> } }

DeviceInfoPayloads == { a.payload : a \in WellFormedAnswers } \cup MalformedAnswers

\* The camera answers GetDeviceInfo with one Data container and then a
\* Response, or with a Response at once; a read may fail or give nothing.  One
\* answer comes in two reads.
DeviceInfoReads ==
    IF Reads(ioLog) = << >>
    THEN { ReadFails, ReadGives(<< >>),
           ReadGives(Container(12, RESPONSE, OK, 0, << >>)),
           ReadGives(Container(12, RESPONSE, DEVICE_BUSY, 0, << >>)),
           ReadGives(Container(12 + Len(PlainAnswer), DATA, GET_DEVICE_INFO, 0,
                               SubSeq(PlainAnswer, 1, 20))) }
         \cup { ReadGives(Container(12 + Len(p), DATA, GET_DEVICE_INFO, 0, p)) :
                  p \in DeviceInfoPayloads }
    ELSE { ReadFails,
           ReadGives(Container(12, RESPONSE, OK, 0, << >>)),
           ReadGives(Container(12, RESPONSE, DEVICE_BUSY, 0, << >>)) }
DeviceInfoMoreReads ==
    { ReadFails, ReadGives(SubSeq(PlainAnswer, 21, Len(PlainAnswer))) }

\* The state after a connect() that found the device and its three endpoints.
InitDeviceInfo == InitExchange

NextDeviceInfo ==
    \/ call_get_device_info
    \/ send_command_enter
    \/ \E ok \in BOOLEAN : send_command_write_cmd(ok)
    \/ \E r \in DeviceInfoReads : send_command_read(r, MaxDeviceInfoReads)
    \/ \E r \in DeviceInfoMoreReads : send_command_read_more(r, MaxDeviceInfoReads)
    \/ get_device_info_check

SpecDeviceInfo == InitDeviceInfo /\ [][NextDeviceInfo]_vars

(* ------------------------------- send_command against a device that goes on *)

\* What a bulk-in read gives while the end of a call is in question: a timeout,
\* a Response, a complete Data container, a Data container that declares one
\* byte more than the read holds; and, for a continuation read, a timeout, no
\* byte, one byte.
LiveReads ==
    { ReadFails,
      ReadGives(Container(12, RESPONSE, OK, 0, << >>)),
      ReadGives(Container(13, DATA, GET_EVENT, 0, << 161 >>)),
      ReadGives(Container(14, DATA, GET_EVENT, 0, << 161 >>)) }
LiveMoreReads == { ReadFails, ReadGives(<< >>), ReadGives(<< 177 >>) }

\* The state after a connect() that found the device and its three endpoints.
InitLive == InitExchange

\* A call is followed without a bound on its reads.
NextLive ==
    \/ \E c \in DirectCalls : call_send_command(c.code, c.params, c.hasData, c.data)
    \/ send_command_enter
    \/ \E ok \in BOOLEAN : send_command_write_cmd(ok)
    \/ \E ok \in BOOLEAN : send_command_write_data(ok)
    \/ \E r \in LiveReads : send_command_read(r, LogSize + 1)
    \/ \E r \in LiveMoreReads : send_command_read_more(r, LogSize + 1)

\* A running send_command keeps running: the interpreter takes its next step,
\* and every bulk transfer comes back, with bytes or with an error (pyusb
\* bounds each read by TIMEOUT_MS).  The client is free not to call.
SpecLive ==
    /\ InitLive
    /\ [][NextLive]_vars
    /\ WF_vars(send_command_enter)
    /\ WF_vars(\E ok \in BOOLEAN : send_command_write_cmd(ok))
    /\ WF_vars(\E ok \in BOOLEAN : send_command_write_data(ok))
    /\ WF_vars(\E r \in LiveReads : send_command_read(r, LogSize + 1))
    /\ WF_vars(\E r \in LiveMoreReads : send_command_read_more(r, LogSize + 1))

(* ------------------------------------- the two classes as context managers *)

\* The frame of a with-statement over `cls`: at pc "enter" while __enter__ runs,
\* "body" while the block runs, "exit" once the block is over and "exited" while
\* __exit__ runs; op is 1 when the block ended by an exception.
WithFrame(cls, pc, op) == Frame(cls, pc, op)
WITH_TRANSPORT == "with USBTransport"
WITH_CAMERA == "with CanonR7"
Withs == { WITH_TRANSPORT, WITH_CAMERA }

\* The exception a block raises by itself.
BodyError == Err("Exception", "raised in the body", << >>)

\* What leaves a with-statement whose block ended as op says and whose __exit__
\* ended as r says: __exit__ returns False, so the exception of the block is
\* re-raised unless __exit__ raised one itself.
WithOutcome(cls, op, r) ==
    IF r.st = "err" THEN Raised(cls, r.err)
    ELSE IF op = 1 THEN Raised(cls, BodyError)
    ELSE Returned(cls, 0, << >>)

\* transport.py lines 224-226: `with USBTransport() as t:` runs __enter__, which
\* calls connect(); an exception of connect leaves the statement at once, and
\* __exit__ is not called.
with_USBTransport_enter ==
    /\ stack = << >>
    /\ \E a \in UsbAnswers :
         LET r == ConnectOutcome(a) IN
         /\ device' = r.device
         /\ out_ep' = r.out_ep
         /\ in_ep' = r.in_ep
         /\ intr_ep' = r.intr_ep
         /\ connHist' = Connected(r.how)
         /\ IF r.err # NoErr
            THEN /\ ret' = Raised(WITH_TRANSPORT, r.err)
                 /\ UNCHANGED stack
            ELSE /\ ret' = NoRet
                 /\ stack' = << WithFrame(WITH_TRANSPORT, "body", 0) >>
    /\ ioLog' = << >>
    /\ cmdLog' = << >>
    /\ UNCHANGED << _transaction_id, protocol, sc, tidHist >>

\* The block of a with-statement calls send_command.
with_body_send_command(code, params, hasData, data) ==
    /\ stack # << >>
    /\ Top.fn \in Withs
    /\ Top.pc = "body"
    /\ _transaction_id + 1 <= MaxTid
    /\ stack' = stack \o << ScFrame >>
    /\ sc' = ScArgs(code, params, hasData, data)
    /\ ret' = NoRet
    /\ ioLog' = << >>
    /\ cmdLog' = << >>
    /\ UNCHANGED << transport, _transaction_id, protocol, tidHist, connHist >>

\* The block of a with-statement ends: normally, or by an exception (one a call
\* of the block raised, or one of its own).
with_body_ends(raises) ==
    /\ stack # << >>
    /\ Top.fn \in Withs
    /\ Top.pc = "body"
    /\ stack' = << WithFrame(Top.fn, "exit", IF raises THEN 1 ELSE 0) >>
    /\ ret' = NoRet
    /\ UNCHANGED << transport, _transaction_id, protocol, sc, ioLog, cmdLog, tidHist,
                    connHist >>

\* transport.py lines 228-235: __exit__ calls disconnect() and returns False.
with_USBTransport_exit ==
    /\ Running(WITH_TRANSPORT, "exit")
    /\ LET r == DisconnectOutcome IN
         /\ device' = r.device
         /\ out_ep' = r.out_ep
         /\ in_ep' = r.in_ep
         /\ intr_ep' = r.intr_ep
         /\ connHist' = [connHist EXCEPT !.disposed = r.disposed]
    /\ stack' = << >>
    /\ ret' = WithOutcome(WITH_TRANSPORT, Top.op, NoRet)
    /\ UNCHANGED << _transaction_id, protocol, sc, ioLog, cmdLog, tidHist >>

\* camera.py lines 94-96 and 52-56: `with CanonR7() as camera:` runs __enter__,
\* which calls CanonR7.connect(): transport.connect(), then the protocol object,
\* then initialize_eos_session().
with_CanonR7_enter ==
    /\ stack = << >>
    /\ _transaction_id + 1 <= MaxTid
    /\ cmdLog' = << >>
    /\ \E a \in UsbAnswers :
         LET r == ConnectOutcome(a) IN
         /\ device' = r.device
         /\ out_ep' = r.out_ep
         /\ in_ep' = r.in_ep
         /\ intr_ep' = r.intr_ep
         /\ connHist' = Connected(r.how)
         /\ IF r.err # NoErr
            THEN /\ ret' = Raised(WITH_CAMERA, r.err)
                 /\ UNCHANGED << protocol, stack, sc >>
            ELSE /\ protocol' = TRUE
                 /\ CallSendCommand(<< WithFrame(WITH_CAMERA, "enter", 0),
                                       Frame("CanonR7.connect", "initialize", 0) >>
                                        \o InitializeFrames,
                                    OPEN_SESSION, << 1 >>)
    /\ ioLog' = << >>
    /\ UNCHANGED << _transaction_id, tidHist >>

\* __enter__ once CanonR7.connect is back: its exception leaves the statement,
\* and __exit__ is not called.
with_CanonR7_entered ==
    /\ Running(WITH_CAMERA, "enter")
    /\ IF ret.st = "err"
       THEN /\ stack' = << >>
            /\ ret' = Raised(WITH_CAMERA, ret.err)
       ELSE /\ stack' = Goto("body")
            /\ ret' = NoRet
    /\ UNCHANGED << transport, _transaction_id, protocol, sc, ioLog, cmdLog, tidHist,
                    connHist >>

\* camera.py lines 98-105 and 58-63: __exit__ calls CanonR7.disconnect(), which
\* closes the session when there is a protocol object and then disconnects the
\* transport.
with_CanonR7_exit ==
    /\ Running(WITH_CAMERA, "exit")
    /\ cmdLog' = << >>
    /\ IF protocol
       THEN /\ CallSendCommand(Goto("exited")
                                 \o << Frame("CanonR7.disconnect", "close_session", 0),
                                       Frame("close_session", "sent", 0) >>,
                               CLOSE_SESSION, << >>)
            /\ UNCHANGED << transport, connHist >>
       ELSE /\ LET r == DisconnectOutcome IN
                 /\ device' = r.device
                 /\ out_ep' = r.out_ep
                 /\ in_ep' = r.in_ep
                 /\ intr_ep' = r.intr_ep
                 /\ connHist' = [connHist EXCEPT !.disposed = r.disposed]
            /\ ret' = Returned("CanonR7.disconnect", 0, << >>)
            /\ stack' = Goto("exited")
            /\ UNCHANGED sc
    /\ ioLog' = << >>
    /\ UNCHANGED << _transaction_id, protocol, tidHist >>

\* __exit__ once CanonR7.disconnect is back: it returns False.
with_CanonR7_done ==
    /\ Running(WITH_CAMERA, "exited")
    /\ stack' = << >>
    /\ ret' = WithOutcome(WITH_CAMERA, Top.op, ret)
    /\ UNCHANGED << transport, _transaction_id, protocol, sc, ioLog, cmdLog, tidHist,
                    connHist >>

InitWith == Init

NextWith ==
    \/ with_USBTransport_enter
    \/ \E c \in DirectCalls : with_body_send_command(c.code, c.params, c.hasData, c.data)
    \/ \E raises \in BOOLEAN : with_body_ends(raises)
    \/ with_USBTransport_exit
    \/ with_CanonR7_enter
    \/ with_CanonR7_entered
    \/ with_CanonR7_exit
    \/ with_CanonR7_done
    \/ send_command_enter
    \/ \E ok \in BOOLEAN : send_command_write_cmd(ok)
    \/ \E ok \in BOOLEAN : send_command_write_data(ok)
    \/ \E r \in FirstReads : send_command_read(r, MaxReads)
    \/ \E r \in MoreReads : send_command_read_more(r, MaxReads)
    \/ open_session_check
    \/ _send_canon_command_check
    \/ initialize_eos_session_step
    \/ CanonR7_connect_done
    \/ close_session_done
    \/ CanonR7_disconnect_release

SpecWith == InitWith /\ [][NextWith]_vars

(* ================================================================ claims *)

AllReleased == ~device /\ ~in_ep /\ ~out_ep /\ ~intr_ep

\* The step in which a running send_command passes its connection check and
\* draws its transaction id.
DrawsId ==
    /\ Running("send_command", "enter")
    /\ Len(stack') = Len(stack)
    /\ stack'[Len(stack')].pc = "write_cmd"

\* C1: on a connected transport every send_command call draws a transaction id:
\* the id is 0 when open_session has succeeded since the previous draw (and for
\* the first draw of a new transport), and otherwise exactly 1 more than the id
\* the previous send_command call drew, whether that call returned or failed.
C1_TransactionIdsSequence ==
    [][ /\ (Running("send_command", "enter") /\ in_ep /\ out_ep) => DrawsId
        /\ DrawsId => sc'.tid = IF tidHist.resetPending THEN 0 ELSE tidHist.last + 1
      ]_vars

\* C1 witness: initialize_eos_session is sending SetEventMode with id 1, after
\* SetRemoteMode drew 0 following an OpenSession that itself drew an id above 0.
C1_Witness ==
    /\ Running("send_command", "write_cmd")
    /\ stack[1].fn = "initialize_eos_session"
    /\ sc.code = SET_EVENT_MODE
    /\ sc.tid = 1
    /\ Len(cmdLog) = 2
    /\ cmdLog[1].tid > 0
    /\ cmdLog[2].tid = 0

\* C6: the counter goes back to 0 exactly when open_session succeeds: a step
\* lowers the counter only if it is open_session receiving an OK response, which
\* then sets it to 0 and returns; when send_command failed or the response is
\* not OK, open_session raises and leaves the counter alone.
C6_ResetOnlyOnSuccessfulOpen ==
    [][ /\ _transaction_id' < _transaction_id =>
              /\ Running("open_session", "sent")
              /\ ret.st = "ok"
              /\ ret.code = OK
        /\ Running("open_session", "sent") =>
              IF ret.st = "ok" /\ ret.code = OK
              THEN _transaction_id' = 0 /\ ret'.st = "ok" /\ ret'.fn = "open_session"
              ELSE /\ _transaction_id' = _transaction_id
                   /\ ret'.st = "err"
                   /\ ret'.fn = "open_session"
      ]_vars

\* C6 witness: open_session has just succeeded with the counter at 0, while its
\* own OpenSession command had drawn an id above 0.
C6_Witness ==
    /\ ret.fn = "open_session"
    /\ ret.st = "ok"
    /\ _transaction_id = 0
    /\ tidHist.last > 0

\* C7: close_session always returns normally, whatever send_command did, and
\* CanonR7.disconnect, once close_session is back, clears the protocol, releases
\* the transport and returns normally.
C7_CloseSessionNeverFails ==
    [][ /\ Running("close_session", "sent") =>
              ret' = Returned("close_session", 0, << >>)
        /\ Running("CanonR7.disconnect", "close_session") =>
              /\ ret' = Returned("CanonR7.disconnect", 0, << >>)
              /\ AllReleased'
              /\ ~protocol'
              /\ stack' = << >>
      ]_vars

\* C7 witness: CanonR7.disconnect has returned with everything released although
\* the last bulk transfer of its CloseSession failed.
C7_Witness ==
    /\ ret = Returned("CanonR7.disconnect", 0, << >>)
    /\ stack = << >>
    /\ AllReleased
    /\ ioLog # << >>
    /\ ~ioLog[Len(ioLog)].ok

\* The commands of initialize_eos_session, in its order.
InitSequence ==
    << [code |-> OPEN_SESSION, params |-> << 1 >>],
       [code |-> SET_REMOTE_MODE, params |-> << 1 >>],
       [code |-> SET_EVENT_MODE, params |-> << 1 >>] >>

\* A client call of initialize_eos_session, or of CanonR7.connect which makes it,
\* is running or has just ended: cmdLog holds the commands it sent.
InInitialize ==
    \/ stack # << >> /\ stack[1].fn \in {"initialize_eos_session", "CanonR7.connect"}
    \/ stack = << >> /\ ret.fn = "initialize_eos_session"
    \/ stack = << >> /\ ret.fn = "CanonR7.connect" /\ cmdLog # << >>

\* The commands sent are a prefix of the sequence, each sent only after the one
\* before it got an OK response.
InitInOrder ==
    /\ Len(cmdLog) <= 3
    /\ \A k \in 1..Len(cmdLog) :
         /\ cmdLog[k].code = InitSequence[k].code
         /\ cmdLog[k].params = InitSequence[k].params
         /\ ~cmdLog[k].hasData
         /\ k > 1 => cmdLog[k - 1].rc = OK

\* initialize_eos_session has ended on a response that was not OK.
InitRejected ==
    /\ ret.fn = "initialize_eos_session"
    /\ cmdLog # << >>
    /\ cmdLog[Len(cmdLog)].rc # -1
    /\ cmdLog[Len(cmdLog)].rc # OK

\* C8 as stated: the three commands go out in order, each after an OK, and the
\* first response that is not OK ends the sequence with an error carrying the
\* operation code of the rejected command and the response code.
C8_ErrorCarriesOperationCode ==
    InInitialize =>
      /\ InitInOrder
      /\ InitRejected =>
           /\ ret.st = "err"
           /\ ret.err.args = << cmdLog[Len(cmdLog)].code, cmdLog[Len(cmdLog)].rc >>

\* C8 amended: the three commands go out in order, each after an OK, and the
\* first response that is not OK ends the sequence with an error: for
\* SetRemoteMode and SetEventMode it carries the operation code and the response
\* code, for OpenSession it is the failed-to-open-session error and carries the
\* response code alone.
C8_InitializeSequence ==
    InInitialize =>
      /\ InitInOrder
      /\ InitRejected =>
           /\ ret.st = "err"
           /\ ret.err.kind = "RuntimeError"
           /\ LET last == cmdLog[Len(cmdLog)] IN
              IF last.code = OPEN_SESSION
              THEN ret.err.msg = "Failed to open session" /\ ret.err.args = << last.rc >>
              ELSE ret.err.msg = "Command failed" /\ ret.err.args = << last.code, last.rc >>
      /\ (ret.fn = "initialize_eos_session" /\ ret.st = "ok") =>
           /\ Len(cmdLog) = 3
           /\ cmdLog[3].rc = OK

\* C8 witness: initialize_eos_session has ended because SetEventMode, the third
\* command, was answered DeviceBusy.
C8_Witness ==
    /\ InInitialize
    /\ InitRejected
    /\ Len(cmdLog) = 3
    /\ cmdLog[3].rc = DEVICE_BUSY
    /\ ret.err.args = << SET_EVENT_MODE, DEVICE_BUSY >>

\* C9: once connect has failed for a missing bulk endpoint, and until a connect
\* succeeds, no bulk transfer is made: connect itself raises "Required USB
\* endpoints not found", and every send_command raises "Not connected" before
\* any write, also when one of the two endpoints is there.
C9_NoWriteWithoutEndpoints ==
    connHist.epMissing =>
      /\ ioLog = << >>
      /\ cmdLog = << >>
      /\ ~in_ep \/ ~out_ep
      /\ ~(stack # << >> /\ Top.fn = "send_command" /\ Top.pc # "enter")
      /\ (ret.fn \in {"connect", "CanonR7.connect"} /\ connHist.last = "endpoint_missing") =>
           /\ ret.st = "err"
           /\ ret.err = Err("USBTransportError", "Required USB endpoints not found", << >>)
      /\ ret.fn = "send_command" =>
           /\ ret.st = "err"
           /\ ret.err = Err("USBTransportError", "Not connected", << >>)

\* C9 witness: a send_command has failed on a transport whose latest connect
\* found exactly one of the two bulk endpoints.
C9_Witness ==
    /\ connHist.epMissing
    /\ connHist.last = "endpoint_missing"
    /\ in_ep # out_ep
    /\ ret.fn = "send_command"
    /\ ret.st = "err"

\* A disconnect (of the transport, or of the facade) returns to the client.
DisconnectReturns ==
    /\ stack' = << >>
    /\ ret'.fn \in {"disconnect", "CanonR7.disconnect"}
    /\ ret'.st = "ok"
    /\ \/ stack = << >>
       \/ Running("CanonR7.disconnect", "close_session")

\* C10: when disconnect returns the transport holds no device and no endpoint;
\* it calls dispose_resources only if a device was held; and a disconnect that
\* follows a disconnect changes no field of the transport, releases nothing and
\* returns normally.
C10_DisconnectReleasesAll ==
    [][ /\ DisconnectReturns =>
              /\ AllReleased'
              /\ connHist'.disposed => device
        /\ (stack = << >> /\ ret.fn \in {"disconnect", "CanonR7.disconnect"}
              /\ ret'.fn \in {"disconnect", "CanonR7.disconnect"}) =>
              /\ stack' = << >>
              /\ ret'.st = "ok"
              /\ ~connHist'.disposed
              /\ UNCHANGED << transport, _transaction_id, protocol >>
      ]_vars

\* C10 witness: disconnect has returned, having released the device that a
\* connect stopped by a missing endpoint had left behind with one endpoint.
C10_Witness ==
    /\ stack = << >>
    /\ ret.fn = "disconnect"
    /\ connHist.last = "endpoint_missing"
    /\ connHist.disposed
    /\ AllReleased

(* ---------------------------------------- claims on send_command's exchange *)

\* The fields of a container header as the wire format lays them out.
WireLen(b) == b[1] + 256 * b[2] + 65536 * b[3] + 16777216 * b[4]
WireType(b) == b[5] + 256 * b[6]
WireCode(b) == b[7] + 256 * b[8]
WireTid(b) == b[9] + 256 * b[10] + 65536 * b[11] + 16777216 * b[12]
WireU32(n) ==
    << n % 256, (n \div 256) % 256, (n \div 65536) % 256, (n \div 16777216) % 256 >>
WireHeader(length, type, code, tid) ==
    WireU32(length) \o << type % 256, type \div 256, code % 256, code \div 256 >>
        \o WireU32(tid)

\* A read that gave a whole header.
IsContainer(e) == e.ok /\ Len(e.bytes) >= 12

RECURSIVE Bytes(_)
\* The bytes of a sequence of transfers, in order.
Bytes(es) == IF es = << >> THEN << >> ELSE Head(es).bytes \o Bytes(Tail(es))

\* The payload bytes received through read k when the first read is a container.
Received(reads, k) == Len(reads[1].bytes) - 12 + Len(Bytes(SubSeq(reads, 2, k)))

\* C2 as stated: when the first container read is Data with declared length D
\* and send_command returns, the data is the bytes after the header of the first
\* read followed by the bytes of the reads after it (up to the read of the
\* Response), cut to exactly D-12 bytes.  Stated for D >= 12, where D-12 is a
\* number of bytes.
C2_ReassembledData ==
    LET reads == Reads(ioLog) IN
    ( /\ stack = << >>
      /\ ret.fn = "send_command"
      /\ ret.st = "ok"
      /\ reads # << >>
      /\ IsContainer(reads[1])
      /\ WireType(reads[1].bytes) = 2
      /\ WireLen(reads[1].bytes) >= 12 ) =>
        LET D == WireLen(reads[1].bytes)
            all == SubSeq(reads[1].bytes, 13, Len(reads[1].bytes))
                     \o Bytes(SubSeq(reads, 2, Len(reads) - 1))
        IN  /\ Len(ret.data) = D - 12
            /\ ret.data = SubSeq(all, 1, D - 12)

\* C3 as stated: when the reads up to read k make up a whole Data container
\* (the declared length, at least 12, is reached at read k and not before) and
\* read k+1 gives a container that is not a Response, the call has ended at
\* that read with an error, returning nothing.
C3_ResponseMustFollowData ==
    LET reads == Reads(ioLog) IN
    \A k \in 1..(Len(reads) - 1) :
      ( /\ \A j \in 1..k : reads[j].ok
        /\ IsContainer(reads[1])
        /\ WireType(reads[1].bytes) = 2
        /\ WireLen(reads[1].bytes) >= 12
        /\ Received(reads, k) >= WireLen(reads[1].bytes) - 12
        /\ k > 1 => Received(reads, k - 1) < WireLen(reads[1].bytes) - 12
        /\ IsContainer(reads[k + 1])
        /\ WireType(reads[k + 1].bytes) # 3 ) =>
          /\ stack = << >>
          /\ ret.fn = "send_command"
          /\ ret.st = "err"
          /\ Len(reads) = k + 1

\* C4: when the first read of a send_command call gives a Response container,
\* the call has returned at that read, with empty data and with the code field
\* of that header as its response code.
C4_ImmediateResponse ==
    LET reads == Reads(ioLog) IN
    ( /\ reads # << >>
      /\ IsContainer(reads[1])
      /\ WireType(reads[1].bytes) = 3 ) =>
        /\ stack = << >>
        /\ Len(reads) = 1
        /\ ret = Returned("send_command", WireCode(reads[1].bytes), << >>)

\* C4 witness: a call has returned OK and no data from a Response read first,
\* whose transaction id, 7, is not the call's.
C4_Witness ==
    /\ stack = << >>
    /\ ret = Returned("send_command", OK, << >>)
    /\ Len(Reads(ioLog)) = 1
    /\ WireTid(Reads(ioLog)[1].bytes) = 7

\* The arguments and the transaction id of the send_command call ioLog is about.
Call == cmdLog[Len(cmdLog)]

\* C5: the transfers of a send_command call are: one write of the Command
\* container (header 12+4*len(params), 1, code, tid, then the parameters as
\* little-endian u32), then, only if a payload was given, one write of the Data
\* container with the same code and tid, then reads only; a failed transfer is
\* the last one and ends the call with an error; and unpacking the first 12
\* bytes written gives back length, type, code and tid.
C5_WritesThenReads ==
    ioLog # << >> =>
      LET nw == IF Call.hasData THEN 2 ELSE 1 IN
      /\ ioLog[1].k = "w"
      /\ ioLog[1].bytes =
            WireHeader(12 + 4 * Len(Call.params), 1, Call.code, Call.tid)
              \o Flatten([i \in 1..Len(Call.params) |-> WireU32(Call.params[i])])
      /\ UnpackHeader(SubSeq(ioLog[1].bytes, 1, 12)) =
            [ pkt_len |-> 12 + 4 * Len(Call.params), pkt_type |-> 1,
              pkt_code |-> Call.code, pkt_tid |-> Call.tid ]
      /\ (Call.hasData /\ Len(ioLog) >= 2) =>
            /\ ioLog[2].k = "w"
            /\ ioLog[2].bytes =
                  WireHeader(12 + Len(Call.data), 2, Call.code, Call.tid) \o Call.data
      /\ \A i \in 1..Len(ioLog) : (i > nw) = (ioLog[i].k = "r")
      /\ \A i \in 1..Len(ioLog) :
            ~ioLog[i].ok =>
              /\ i = Len(ioLog)
              /\ stack = << >>
              /\ ret.fn = "send_command"
              /\ ret.st = "err"
      /\ (stack # << >> /\ Top.pc \in {"read", "read_more"}) => Len(ioLog) >= nw

\* C5 witness: a call with two parameters and a payload has written its Command
\* and its Data container and has read twice, the second read failing.
C5_Witness ==
    /\ ioLog # << >>
    /\ Call.hasData
    /\ Len(Call.params) = 2
    /\ Len(Call.data) = 2
    /\ Call.tid > 0
    /\ Len(ioLog) = 4
    /\ ~ioLog[4].ok

\* C11 as stated: when connect has returned with an error because the camera
\* was busy at set_configuration or because a required bulk endpoint was
\* missing, the transport holds no device handle and no endpoint.
C11_FailedConnectRollsBack ==
    ( /\ ret.fn = "connect"
      /\ ret.st = "err"
      /\ connHist.last \in {"busy", "endpoint_missing"} ) => AllReleased

\* The transport is not connected: no connect has been made, or a connect found
\* a bulk endpoint missing and none has succeeded since, or disconnect released
\* the device after the latest connect.
NeverOrNoLongerConnected ==
    connHist.last = "none" \/ connHist.epMissing \/ connHist.disposed

\* C19: a send_command that starts on a transport that is not connected ends at
\* once with the 'Not connected' error, and the step changes nothing else: the
\* counter and the id drawn last stay, the transport's fields stay, no Command
\* container is logged and no bulk transfer is made.
C19_NotConnectedChangesNothing ==
    [][ ( Running("send_command", "enter") /\ NeverOrNoLongerConnected ) =>
          /\ stack' = Pop
          /\ ret' = Raised("send_command", Err("USBTransportError", "Not connected", << >>))
          /\ _transaction_id' = _transaction_id
          /\ tidHist' = tidHist
          /\ << device, in_ep, out_ep, intr_ep >>' = << device, in_ep, out_ep, intr_ep >>
          /\ protocol' = protocol
          /\ cmdLog' = cmdLog
          /\ ioLog' = << >> ]_vars

\* C19 witness: ids had been drawn, disconnect released the device and a later
\* send_command has failed with 'Not connected', the counter still above 0.
C19_Witness ==
    /\ connHist.disposed
    /\ tidHist.last >= 0
    /\ _transaction_id = tidHist.last + 1
    /\ ret = Raised("send_command", Err("USBTransportError", "Not connected", << >>))
    /\ ioLog = << >>

\* C17 as stated: when send_command has ended with an error after a transfer,
\* nothing is returned, and the error's kind tells the cause: a failed write or
\* a failed or timed-out read gives the transport error, while a read that
\* succeeded and gave fewer than 12 bytes, or a container whose type is neither
\* Data nor Response, gives an error of another kind.
C17_ErrorKindsDiffer ==
    ( ret.fn = "send_command" /\ ret.st = "err" /\ ioLog # << >> ) =>
        LET last == ioLog[Len(ioLog)] IN
        /\ ret.data = << >>
        /\ ~last.ok => ret.err.kind = "USBTransportError"
        /\ ( /\ last.ok
             /\ last.k = "r"
             /\ \/ Len(last.bytes) < 12
                \/ WireType(last.bytes) \notin {2, 3} ) =>
               ret.err.kind # "USBTransportError"

(* -------------------------------------------------- claims on GetEvent *)

\* The little-endian u32 at the 0-based position o of b.
WireU32At(b, o) == WireLen(SubSeq(b, o + 1, o + 4))

\* The payload of the answer to the latest GetEvent: the bytes read before the
\* Response, less the 12-byte header of the Data container.
Answer ==
    LET reads == Reads(ioLog) IN
    IF Len(reads) < 2 THEN << >>
    ELSE LET b == Bytes(SubSeq(reads, 1, Len(reads) - 1)) IN SubSeq(b, 13, Len(b))

RECURSIVE Walked(_, _)
\* The offsets of the records of b from offset o on: each record starts where
\* the declared length of the one before ends; the walk stops where fewer than
\* 8 bytes remain and before a record of length 0 or of event code 0.
Walked(b, o) ==
    IF o + 8 > Len(b) THEN << >>
    ELSE IF WireU32At(b, o) = 0 \/ WireU32At(b, o + 4) = 0 THEN << >>
    ELSE << o >> \o Walked(b, o + WireU32At(b, o))

\* The bytes of b that lie in the value field of the record at o: after the
\* 8-byte header and the 4-byte property code, before the record's declared end.
ValueAt(b, o) ==
    SubSeq(b, o + 13, IF o + WireU32At(b, o) < Len(b) THEN o + WireU32At(b, o) ELSE Len(b))

\* The offsets of the walked records that are property-value-changed records
\* with a property code and at least one byte of value.
ChangedAt(b) ==
    SelectSeq(Walked(b, 0),
              LAMBDA o : WireU32At(b, o + 4) = 49545 /\ ValueAt(b, o) # << >>)

GotEvents == ret.fn = "get_event" /\ ret.st = "ok"

\* C12: the events get_event returns are, in stream order, one for each
\* property-value-changed record met by the walk from offset 0 (a walk that
\* passes over records of every other event code by their declared length and
\* ends at a zero length, a zero event code or fewer than 8 remaining bytes),
\* each carrying the property code of its record.
C12_EventsFollowRecords ==
    GotEvents =>
        LET at == ChangedAt(Answer) IN
        /\ Len(ret.val) = Len(at)
        /\ \A i \in 1..Len(at) :
             ret.val[i].property_code = WireU32At(Answer, at[i] + 8)

\* C12 witness: the answer held a record of another event code and then a
\* property-value-changed record, and one event came back, with the property
\* code of the second record.
C12_Witness ==
    /\ GotEvents
    /\ Len(Walked(Answer, 0)) = 2
    /\ WireU32At(Answer, 4) = 49546
    /\ Len(ret.val) = 1
    /\ ret.val[1].property_code = 53505

\* C13: each event carries the first 4 bytes of its record's data as property
\* code and the rest as value: a value of 4 bytes as the integer it encodes, a
\* value of any other length as the bytes themselves; records with no value
\* byte give no event.
C13_ValueVariants ==
    GotEvents =>
        LET at == ChangedAt(Answer) IN
        /\ Len(ret.val) = Len(at)
        /\ \A i \in 1..Len(at) :
             LET v == ValueAt(Answer, at[i]) IN
             ret.val[i] =
                 IF Len(v) = 4
                 THEN [ property_code |-> WireU32At(Answer, at[i] + 8), kind |-> "int",
                        int |-> WireLen(v), bytes |-> << >> ]
                 ELSE [ property_code |-> WireU32At(Answer, at[i] + 8), kind |-> "bytes",
                        int |-> 0, bytes |-> v ]

\* C13 witness: an answer of a record with a 4-byte value and a record with a
\* 5-byte value came back as an integer event and a bytes event.
C13_Witness ==
    /\ GotEvents
    /\ Len(ret.val) = 2
    /\ ret.val[1].kind = "int" /\ ret.val[1].int = 67305985
    /\ ret.val[2].kind = "bytes" /\ Len(ret.val[2].bytes) = 5

\* The number of value bytes an event carries.
ValueLen(e) == IF e.kind = "int" THEN 4 ELSE Len(e.bytes)

\* C18 as stated: every event's value has exactly L-12 bytes, L the declared
\* length of its record; so a record whose declared length reaches past the
\* end of the answer gives no event.
C18_ValueHasDeclaredLength ==
    GotEvents =>
        LET at == ChangedAt(Answer) IN
        \A i \in 1..Len(at) :
            i <= Len(ret.val) => ValueLen(ret.val[i]) = WireU32At(Answer, at[i]) - 12

\* The GetEvent exchange failed: a transfer failed, or the last read was not a
\* Response with code OK.
EventExchangeFailed ==
    \/ ioLog = << >>
    \/ LET last == ioLog[Len(ioLog)] IN
       \/ ~last.ok
       \/ last.k # "r"
       \/ Len(last.bytes) < 12
       \/ WireType(last.bytes) # 3
       \/ WireCode(last.bytes) # 8193

\* The offsets of the records that give a shutter-counter event with a value
\* of 16 bytes or more.
CounterAt(b) ==
    SelectSeq(ChangedAt(b),
              LAMBDA o : WireU32At(b, o + 8) = 53607 /\ Len(ValueAt(b, o)) >= 16)

\* C14: get_shutter_count raises only when the GetEvent exchange failed;
\* otherwise it returns nothing when the answer holds no shutter-counter event
\* with a bytes value of at least 16 bytes, and else the two u32 at bytes 8-11
\* and 12-15 of the value of such an event.
C14_ShutterCounters ==
    ret.fn = "get_shutter_count" =>
        /\ ret.st = "err" => EventExchangeFailed
        /\ ret.st = "ok" =>
             LET at == CounterAt(Answer) IN
             IF at = << >> THEN ret.val = << >>
             ELSE \E i \in 1..Len(at) :
                    LET v == ValueAt(Answer, at[i]) IN
                    ret.val = << WireU32At(v, 8), WireU32At(v, 12) >>

\* C14 witness: the answer held a shutter-counter record whose value is too
\* short or an integer, then one with a value of 16 bytes, and the counters
\* 1000 and 2000 came back.
C14_Witness ==
    /\ ret = ReturnedValue("get_shutter_count", << 1000, 2000 >>)
    /\ Len(ChangedAt(Answer)) = 2
    /\ WireU32At(Answer, 8) = 53607
    /\ Len(CounterAt(Answer)) = 1

\* C14 second witness: an answer with no shutter-counter event gave nothing
\* and no error.
C14_WitnessNothing ==
    /\ ret = ReturnedValue("get_shutter_count", << >>)
    /\ Len(ChangedAt(Answer)) = 1
    /\ CounterAt(Answer) = << >>

(* ---------------------------------------------- claims on GetDeviceInfo *)

\* get_device_info has finished after an exchange that did not fail.
DeviceInfoAnswered == ret.fn = "get_device_info" /\ ~EventExchangeFailed

\* The n 16-bit little-endian units of b from the 0-based position o.
UnitsAt(b, o, n) == [i \in 1..n |-> b[o + 2 * i - 1] + 256 * b[o + 2 * i]]

HighUnit(u) == u >= 55296 /\ u <= 56319
LowUnit(u) == u >= 56320 /\ u <= 57343

\* Valid UTF-16: every high surrogate is followed by a low one, every low
\* surrogate follows a high one.
ValidUtf16(u) ==
    \A i \in 1..Len(u) :
        /\ HighUnit(u[i]) => i < Len(u) /\ LowUnit(u[i + 1])
        /\ LowUnit(u[i]) => i > 1 /\ HighUnit(u[i - 1])

RECURSIVE TextOf(_)
\* The characters of valid UTF-16 units.
TextOf(u) ==
    IF Len(u) = 0 THEN << >>
    ELSE IF HighUnit(u[1])
    THEN << 65536 + (u[1] - 55296) * 1024 + (u[2] - 56320) >> \o TextOf(SubSeq(u, 3, Len(u)))
    ELSE << u[1] >> \o TextOf(SubSeq(u, 2, Len(u)))

\* C15: the protocol-string decode at any offset o inside the answer, with
\* count byte C: C = 0 gives the empty string and o+1; C > 0 with 2C bytes
\* behind the count gives o+1+2C and the text of the first C-1 units, or the
\* empty string when those units are not valid UTF-16; C > 0 with fewer than
\* 2C bytes left gives the empty string.
C15_ReadPtpString ==
    DeviceInfoAnswered =>
        \A o \in 0..(Len(Answer) - 1) :
            LET C == Answer[o + 1]
                r == _read_ptp_string(Answer, o)
                units == UnitsAt(Answer, o + 1, C - 1)
            IN  /\ C = 0 => r = [string |-> << >>, offset |-> o + 1]
                /\ (C > 0 /\ o + 1 + 2 * C <= Len(Answer)) =>
                       /\ r.offset = o + 1 + 2 * C
                       /\ r.string = IF ValidUtf16(units) THEN TextOf(units) ELSE << >>
                /\ (C > 0 /\ o + 1 + 2 * C > Len(Answer)) => r.string = << >>

\* C15 witness: the answer's manufacturer had the count 3 and units that are
\* not valid UTF-16; it came back empty, and the model and device_version
\* behind it came back whole.
C15_Witness ==
    /\ DeviceInfoAnswered
    /\ ret = ReturnedValue("get_device_info", << << >>, << 65, 66 >>, << 67 >> >>)
    /\ \E o \in 0..(Len(Answer) - 7) :
         /\ Answer[o + 1] = 3
         /\ ~ValidUtf16(UnitsAt(Answer, o + 1, 2))
         /\ _read_ptp_string(Answer, o) = [string |-> << >>, offset |-> o + 7]

\* C16: for every well-formed answer, whatever the extension description and
\* the five arrays, get_device_info returns the three encoded strings as
\* manufacturer, model and device_version; and the array skip at an offset o
\* moves to o + 4 + 2N for the u32 count N at o (followed for N below 2^30),
\* or stays at o where fewer than 4 bytes remain.
C16_DeviceInfoStrings ==
    DeviceInfoAnswered =>
        /\ \A a \in WellFormedAnswers :
             a.payload = Answer => ret = ReturnedValue("get_device_info", a.strings)
        /\ \A o \in 0..Len(Answer) :
             IF o + 4 > Len(Answer)
             THEN _skip_uint16_array(Answer, o) = o
             ELSE Answer[o + 4] < 64 =>
                    _skip_uint16_array(Answer, o) = o + 4 + 2 * WireU32At(Answer, o)

\* C16 witness: an answer with a description of one character, arrays of 2, 1,
\* 0, 3 and 1 elements and a serial number behind device_version gave its
\* three strings, the first with a surrogate pair, the second empty.
C16_Witness ==
    /\ ret = ReturnedValue("get_device_info",
                           << << 233, 20320, 128512 >>, << >>, << 65, 66 >> >>)
    /\ Answer = DeviceInfoLayout(PtpString(<< 20320 >>), << 2, 1, 0, 3, 1 >>,
                    << PtpString(<< 233, 20320, 128512 >>), PtpString(<< >>),
                       PtpString(<< 65, 66 >>) >>, PtpString(<< 83 >>))

\* C20: whatever the answer's payload, get_device_info returns three strings
\* and does not raise, and every index the decode reads lies inside the payload.
C20_DeviceInfoTotal ==
    DeviceInfoAnswered =>
        /\ ret.st = "ok"
        /\ Len(ret.val) = 3
        /\ \A k \in 1..3 : \A j \in 1..Len(ret.val[k]) : ret.val[k][j] >= 0
        /\ \A i \in ParseDeviceInfoIndexed(Answer) : 0 <= i /\ i < Len(Answer)

\* C20 witness: a payload of 15 bytes whose first array count is 16777216 gave
\* three empty strings.
C20_Witness ==
    /\ DeviceInfoAnswered
    /\ Len(Answer) = 15
    /\ WireU32At(Answer, 11) = 16777216
    /\ ret = ReturnedValue("get_device_info", << << >>, << >>, << >> >>)

\* C20 second witness: the empty payload gave three empty strings.
C20_WitnessEmpty ==
    /\ DeviceInfoAnswered
    /\ Answer = << >>
    /\ ret = ReturnedValue("get_device_info", << << >>, << >>, << >> >>)

\* C21: the loop of the event parser makes progress and ends: from every
\* offset of the answer a pass of the body breaks or moves the offset forward
\* by at least 1 (followed where the u32 read fit 31 bits), the passes made
\* from offset 0 are at most as many as the answer has bytes, and the events
\* are at most as many as the passes.
C21_EventParsingEnds ==
    GotEvents =>
        /\ \A o \in 0..Len(Answer) :
             ( /\ o + 8 <= Len(Answer)
               /\ Answer[o + 4] < 128
               /\ Answer[o + 8] < 128 ) =>
                 LET p == LoopPass(Answer, o) IN
                 p.to = "break" \/ (p.to = "next" /\ p.offset >= o + 1)
        /\ LoopPasses(Answer, 0, Len(Answer)) <= Len(Answer)
        /\ Len(ret.val) <= LoopPasses(Answer, 0, Len(Answer))

\* C21 witness: the answer began with a record of declared length 7, below the
\* header size, and a second record followed; the loop made a second pass from
\* offset 7 and ended.
C21_Witness ==
    /\ GotEvents
    /\ Len(Answer) >= 16
    /\ WireU32At(Answer, 0) = 7
    /\ LoopPass(Answer, 0) = [to |-> "next", offset |-> 7]
    /\ LoopPasses(Answer, 0, Len(Answer)) >= 2

\* C22 as stated: every send_command call that has started on the connected
\* transport eventually ends, by returning or by raising, whatever the reads
\* give.
C22_EveryCallEnds == (stack # << >>) ~> (stack = << >>)

(* ---------------------------------------------------------------- C23 *)

\* A with-statement over USBTransport or CanonR7 has ended: by the exception of
\* __enter__, or after __exit__.
WithEnded == stack = << >> /\ ret.fn \in Withs

\* C23: once a with-statement over USBTransport or over CanonR7 has ended,
\* normally, by an exception of its block or by an exception of connect itself,
\* the transport holds no device handle and no endpoint.
C23_WithReleasesDevice == WithEnded => AllReleased

(* ---------------------------------------------------------------- C24 *)

\* A container with the fields left out that the result may not depend on: the
\* code and the transaction id of a Data container (bytes 7-12), the
\* transaction id of a Response (bytes 9-12).  Anything else is kept.
Scrubbed(b) ==
    IF WireType(b) = 2
    THEN [i \in 1..Len(b) |-> IF i \in 7..12 THEN 0 ELSE b[i]]
    ELSE IF WireType(b) = 3
    THEN [i \in 1..Len(b) |-> IF i \in 9..12 THEN 0 ELSE b[i]]
    ELSE b

\* The first n bytes of d as `d[:n]` gives them, for any integer n.
Cut(d, n) ==
    IF n >= 0 THEN SubSeq(d, 1, IF n < Len(d) THEN n ELSE Len(d))
    ELSE SubSeq(d, 1, IF Len(d) + n > 0 THEN Len(d) + n ELSE 0)

ExchangeFails == [st |-> "err", code |-> 0, data |-> << >>]
ExchangeGoesOn == [st |-> "", code |-> 0, data |-> << >>]

RECURSIVE Exchange(_, _, _, _)
\* What an exchange over `reads` comes to, each container being looked at
\* through Scrubbed only: `more` tells whether the payload of a Data container
\* of declared length D is still being collected into `data`.
Exchange(reads, more, data, D) ==
    IF reads = << >> THEN ExchangeGoesOn
    ELSE LET e == Head(reads) IN
         IF ~e.ok THEN ExchangeFails
         ELSE IF more
         THEN LET d == data \o e.bytes IN
              IF Len(d) + 12 < D THEN Exchange(Tail(reads), TRUE, d, D)
              ELSE Exchange(Tail(reads), FALSE, Cut(d, D - 12), D)
         ELSE IF Len(e.bytes) < 12 THEN ExchangeFails
         ELSE LET b == Scrubbed(e.bytes)
                  d == SubSeq(b, 13, Len(b))
              IN  IF WireType(b) = 2
                  THEN IF Len(d) + 12 < WireLen(b)
                       THEN Exchange(Tail(reads), TRUE, d, WireLen(b))
                       ELSE Exchange(Tail(reads), FALSE, Cut(d, WireLen(b) - 12),
                                     WireLen(b))
                  ELSE IF WireType(b) = 3
                  THEN [st |-> "ok", code |-> WireCode(b), data |-> data]
                  ELSE ExchangeFails

\* C24: what send_command returns (the response code and the data, or an
\* error) is fixed by its reads with the code and transaction id of every Data
\* container and the transaction id of the Response blanked out; so two
\* exchanges that differ only in those fields end alike, and a Response with a
\* transaction id other than the command's is taken as the command's response.
C24_ResultIgnoresInboundIds ==
    ( /\ stack = << >>
      /\ ret.fn = "send_command"
      /\ Reads(ioLog) # << >> ) =>
        LET x == Exchange(Reads(ioLog), FALSE, << >>, 0) IN
        /\ ret.st = x.st
        /\ ret.code = x.code
        /\ ret.data = x.data

\* C24's case: the call returned OK and the payload byte after a Data container
\* whose code and transaction id are not the command's, and a Response whose
\* transaction id is not the command's.
C24_Witness ==
    LET reads == Reads(ioLog) IN
    /\ stack = << >>
    /\ ret = Returned("send_command", OK, << 161 >>)
    /\ Len(cmdLog) = 1
    /\ Len(reads) = 2
    /\ WireType(reads[1].bytes) = 2
    /\ WireCode(reads[1].bytes) # cmdLog[1].code
    /\ WireTid(reads[1].bytes) # cmdLog[1].tid
    /\ WireType(reads[2].bytes) = 3
    /\ WireTid(reads[2].bytes) # cmdLog[1].tid

====
